---- MODULE Spec2Model ----
(***************************************************************************)
(* Model of the liturgical engine of twice-daily:                          *)
(*   - engine/easter.ts    moveable feast calculator                       *)
(*   - engine/calendar.ts  season resolver and liturgical day resolver     *)
(*   - engine/lectionary-resolver.ts  lazy table loading and resolution    *)
(*   - engine/psalter.ts   30-day psalter and the portions of Psalm 119    *)
(*   - utils/date.ts, utils/plan-day.ts  date strings and the plan day     *)
(*                                                                         *)
(* A JavaScript Date built with new Date(y, m, d) is a local midnight; it  *)
(* is modelled by its day number (days since 1970-01-01), months are       *)
(* 0-indexed as in the source.  Its getTime() depends on the time zone of  *)
(* the runtime, which is an input of the environment (tz).                 *)
(***************************************************************************)
EXTENDS Integers, Sequences, FiniteSets, TLC

VARIABLES
  date,        \* the date handed to the calendar engine
  calpc,       \* how far the engine has got with it
  feasts,      \* computeMoveableFeasts(year of date)
  branch,      \* the return statement determineSeason took for date
  prevBranch,  \* the one it took for the day before
  litDay,      \* resolveLiturgicalDay(date)
  psalms,      \* the appointed psalms built for date and a session
  cache,       \* the module-level lectionary tables, by plan
  calls,       \* the resolveReadings calls
  fetched,     \* the number of fetches issued, by plan
  tz,          \* the time zone of the runtime
  tables,      \* the content of the loaded lectionary tables
  request,     \* the arguments of a resolveReadings call on loaded tables
  readings,    \* what that call returned
  anchor,      \* a sequential plan's start date and the plan-day arithmetic
  officeHook,  \* the state of useOffice and its latest effect
  officeCalls, \* the assembleOffice calls of its effects
  completion,  \* the state of useCompletion, its ref and its timer
  completions, \* the completions table of the database
  loads,       \* the load effects' async functions
  persists     \* the persist callbacks whose timer has fired

calVars == <<date, calpc, feasts, branch, prevBranch, litDay, psalms>>
loadVars == <<cache, calls, fetched>>
resolveVars == <<tz, tables, request, readings>>
planVars == <<anchor>>
officeVars == <<officeHook, officeCalls>>
completionVars == <<completion, completions, loads, persists>>
vars == <<date, calpc, feasts, branch, prevBranch, litDay, psalms, cache,
          calls, fetched, tz, tables, request, readings, anchor, officeHook,
          officeCalls, completion, completions, loads, persists>>

\* ------------------------------------------------------------------------
\* Bounds
\* ------------------------------------------------------------------------
MinYear == 2000
MaxYear == 2050
MaxCalls == 3

Undefined == "undefined"

\* ------------------------------------------------------------------------
\* JavaScript Date
\* ------------------------------------------------------------------------

\* Day number of the first day of month m0 (0-indexed) of year y.
MonthStart(y, m0) ==
  LET m   == m0 + 1
      yy  == IF m <= 2 THEN y - 1 ELSE y
      era == yy \div 400
      yoe == yy - era * 400
      mp  == IF m > 2 THEN m - 3 ELSE m + 9
      doy == (153 * mp + 2) \div 5
      doe == yoe * 365 + yoe \div 4 - yoe \div 100 + doy
  IN  era * 146097 + doe - 719468

\* new Date(y, m0, d): a day of month outside the month rolls over.
NewDate(y, m0, d) == MonthStart(y, m0) + d - 1

\* The civil fields <<year, month (0-indexed), day of month>> of a date.
Civil(z) ==
  LET s   == z + 719468
      era == s \div 146097
      doe == s - era * 146097
      yoe == (doe - doe \div 1460 + doe \div 36524 - doe \div 146096) \div 365
      doy == doe - (365 * yoe + yoe \div 4 - yoe \div 100)
      mp  == (5 * doy + 2) \div 153
      d   == doy - (153 * mp + 2) \div 5 + 1
      m   == IF mp < 10 THEN mp + 3 ELSE mp - 9
      y   == yoe + era * 400 + (IF m <= 2 THEN 1 ELSE 0)
  IN  <<y, m - 1, d>>

getFullYear(z) == Civil(z)[1]
getMonth(z) == Civil(z)[2]
getDate(z) == Civil(z)[3]

\* 0 = Sunday ... 6 = Saturday; 1970-01-01 was a Thursday.
getDay(z) == (z + 4) % 7

\* ------------------------------------------------------------------------
\* engine/easter.ts
\* ------------------------------------------------------------------------

\* computeEaster with the day of month taken without its `+ 1`.
computeEasterDayOff(year) ==
  LET a == year % 19
      b == year \div 100
      c == year % 100
      d == b \div 4
      e == b % 4
      f == (b + 8) \div 25
      g == (b - f + 1) \div 3
      h == (19 * a + b - d - g + 15) % 30
      i == c \div 4
      k == c % 4
      l == (32 + 2 * e + 2 * i - h - k) % 7
      m == (a + 11 * h + 22 * l) \div 451
      month == (h + l - 7 * m + 114) \div 31
      day == (h + l - 7 * m + 114) % 31
  IN  NewDate(year, month - 1, day)

computeEaster(year) ==
  LET a == year % 19
      b == year \div 100
      c == year % 100
      d == b \div 4
      e == b % 4
      f == (b + 8) \div 25
      g == (b - f + 1) \div 3
      h == (19 * a + b - d - g + 15) % 30
      i == c \div 4
      k == c % 4
      l == (32 + 2 * e + 2 * i - h - k) % 7
      m == (a + 11 * h + 22 * l) \div 451
      month == (h + l - 7 * m + 114) \div 31
      day == ((h + l - 7 * m + 114) % 31) + 1
  IN  NewDate(year, month - 1, day)

\* computeAdventSunday going back to the previous Sunday up to a Thursday.
computeAdventSundayThursdayBack(year) ==
  LET nov30 == NewDate(year, 10, 30)
      dayOfWeek == getDay(nov30)
      offset == IF dayOfWeek <= 4 THEN 0 - dayOfWeek ELSE 7 - dayOfWeek
  IN  NewDate(year, 10, 30 + offset)

computeAdventSunday(year) ==
  LET nov30 == NewDate(year, 10, 30)
      dayOfWeek == getDay(nov30)
      offset == IF dayOfWeek <= 3 THEN 0 - dayOfWeek ELSE 7 - dayOfWeek
  IN  NewDate(year, 10, 30 + offset)

addDays(d, days) == d + days

\* computeMoveableFeasts with Ascension Day forty days after Easter.
computeMoveableFeastsAscensionFriday(year) ==
  LET easter == computeEaster(year)
  IN  [ septuagesima  |-> addDays(easter, -63),
        sexagesima    |-> addDays(easter, -56),
        quinquagesima |-> addDays(easter, -49),
        ashWednesday  |-> addDays(easter, -46),
        palmSunday    |-> addDays(easter, -7),
        goodFriday    |-> addDays(easter, -2),
        easterDay     |-> easter,
        easterMonday  |-> addDays(easter, 1),
        ascensionDay  |-> addDays(easter, 40),
        whitsunday    |-> addDays(easter, 49),
        whitMonday    |-> addDays(easter, 50),
        trinitySunday |-> addDays(easter, 56),
        adventSunday  |-> computeAdventSunday(year),
        christmasDay  |-> NewDate(year, 11, 25),
        epiphany      |-> NewDate(year, 0, 6) ]

computeMoveableFeasts(year) ==
  LET easter == computeEaster(year)
  IN  [ septuagesima  |-> addDays(easter, -63),
        sexagesima    |-> addDays(easter, -56),
        quinquagesima |-> addDays(easter, -49),
        ashWednesday  |-> addDays(easter, -46),
        palmSunday    |-> addDays(easter, -7),
        goodFriday    |-> addDays(easter, -2),
        easterDay     |-> easter,
        easterMonday  |-> addDays(easter, 1),
        ascensionDay  |-> addDays(easter, 39),
        whitsunday    |-> addDays(easter, 49),
        whitMonday    |-> addDays(easter, 50),
        trinitySunday |-> addDays(easter, 56),
        adventSunday  |-> computeAdventSunday(year),
        christmasDay  |-> NewDate(year, 11, 25),
        epiphany      |-> NewDate(year, 0, 6) ]

\* ------------------------------------------------------------------------
\* engine/calendar.ts
\* ------------------------------------------------------------------------

\* FIXED_HOLY_DAYS with Christmas Day entered under a 1-indexed month.
FIXED_HOLY_DAYS_OneIndexedChristmas ==
  << [month |-> 10, day |-> 30, name |-> "St Andrew", rank |-> "major", collectId |-> "st-andrew"],
     [month |-> 11, day |-> 21, name |-> "St Thomas", rank |-> "minor", collectId |-> "st-thomas"],
     [month |-> 12, day |-> 25, name |-> "Christmas Day", rank |-> "principal", collectId |-> "christmas"],
     [month |-> 11, day |-> 26, name |-> "St Stephen", rank |-> "minor", collectId |-> "st-stephen"],
     [month |-> 11, day |-> 27, name |-> "St John the Evangelist", rank |-> "minor", collectId |-> "st-john-evangelist"],
     [month |-> 11, day |-> 28, name |-> "Holy Innocents", rank |-> "minor", collectId |-> "holy-innocents"],
     [month |-> 0, day |-> 1, name |-> "Circumcision", rank |-> "principal", collectId |-> "circumcision"],
     [month |-> 0, day |-> 6, name |-> "Epiphany", rank |-> "principal", collectId |-> "epiphany"],
     [month |-> 0, day |-> 25, name |-> "Conversion of St Paul", rank |-> "major", collectId |-> "conversion-st-paul"],
     [month |-> 1, day |-> 2, name |-> "Purification", rank |-> "major", collectId |-> "purification"],
     [month |-> 1, day |-> 24, name |-> "St Matthias", rank |-> "minor", collectId |-> "st-matthias"],
     [month |-> 2, day |-> 25, name |-> "Annunciation", rank |-> "major", collectId |-> "annunciation"],
     [month |-> 3, day |-> 25, name |-> "St Mark", rank |-> "minor", collectId |-> "st-mark"],
     [month |-> 4, day |-> 1, name |-> "SS Philip & James", rank |-> "minor", collectId |-> "ss-philip-james"],
     [month |-> 5, day |-> 11, name |-> "St Barnabas", rank |-> "minor", collectId |-> "st-barnabas"],
     [month |-> 5, day |-> 24, name |-> "Nativity of St John the Baptist", rank |-> "major", collectId |-> "nativity-john-baptist"],
     [month |-> 5, day |-> 29, name |-> "St Peter", rank |-> "major", collectId |-> "st-peter"],
     [month |-> 6, day |-> 25, name |-> "St James", rank |-> "minor", collectId |-> "st-james"],
     [month |-> 7, day |-> 24, name |-> "St Bartholomew", rank |-> "minor", collectId |-> "st-bartholomew"],
     [month |-> 8, day |-> 21, name |-> "St Matthew", rank |-> "minor", collectId |-> "st-matthew"],
     [month |-> 8, day |-> 29, name |-> "Michaelmas", rank |-> "major", collectId |-> "michaelmas"],
     [month |-> 9, day |-> 18, name |-> "St Luke", rank |-> "minor", collectId |-> "st-luke"],
     [month |-> 9, day |-> 28, name |-> "SS Simon & Jude", rank |-> "minor", collectId |-> "ss-simon-jude"],
     [month |-> 10, day |-> 1, name |-> "All Saints' Day", rank |-> "major", collectId |-> "all-saints"] >>

FIXED_HOLY_DAYS ==
  << [month |-> 10, day |-> 30, name |-> "St Andrew", rank |-> "major", collectId |-> "st-andrew"],
     [month |-> 11, day |-> 21, name |-> "St Thomas", rank |-> "minor", collectId |-> "st-thomas"],
     [month |-> 11, day |-> 25, name |-> "Christmas Day", rank |-> "principal", collectId |-> "christmas"],
     [month |-> 11, day |-> 26, name |-> "St Stephen", rank |-> "minor", collectId |-> "st-stephen"],
     [month |-> 11, day |-> 27, name |-> "St John the Evangelist", rank |-> "minor", collectId |-> "st-john-evangelist"],
     [month |-> 11, day |-> 28, name |-> "Holy Innocents", rank |-> "minor", collectId |-> "holy-innocents"],
     [month |-> 0, day |-> 1, name |-> "Circumcision", rank |-> "principal", collectId |-> "circumcision"],
     [month |-> 0, day |-> 6, name |-> "Epiphany", rank |-> "principal", collectId |-> "epiphany"],
     [month |-> 0, day |-> 25, name |-> "Conversion of St Paul", rank |-> "major", collectId |-> "conversion-st-paul"],
     [month |-> 1, day |-> 2, name |-> "Purification", rank |-> "major", collectId |-> "purification"],
     [month |-> 1, day |-> 24, name |-> "St Matthias", rank |-> "minor", collectId |-> "st-matthias"],
     [month |-> 2, day |-> 25, name |-> "Annunciation", rank |-> "major", collectId |-> "annunciation"],
     [month |-> 3, day |-> 25, name |-> "St Mark", rank |-> "minor", collectId |-> "st-mark"],
     [month |-> 4, day |-> 1, name |-> "SS Philip & James", rank |-> "minor", collectId |-> "ss-philip-james"],
     [month |-> 5, day |-> 11, name |-> "St Barnabas", rank |-> "minor", collectId |-> "st-barnabas"],
     [month |-> 5, day |-> 24, name |-> "Nativity of St John the Baptist", rank |-> "major", collectId |-> "nativity-john-baptist"],
     [month |-> 5, day |-> 29, name |-> "St Peter", rank |-> "major", collectId |-> "st-peter"],
     [month |-> 6, day |-> 25, name |-> "St James", rank |-> "minor", collectId |-> "st-james"],
     [month |-> 7, day |-> 24, name |-> "St Bartholomew", rank |-> "minor", collectId |-> "st-bartholomew"],
     [month |-> 8, day |-> 21, name |-> "St Matthew", rank |-> "minor", collectId |-> "st-matthew"],
     [month |-> 8, day |-> 29, name |-> "Michaelmas", rank |-> "major", collectId |-> "michaelmas"],
     [month |-> 9, day |-> 18, name |-> "St Luke", rank |-> "minor", collectId |-> "st-luke"],
     [month |-> 9, day |-> 28, name |-> "SS Simon & Jude", rank |-> "minor", collectId |-> "ss-simon-jude"],
     [month |-> 10, day |-> 1, name |-> "All Saints' Day", rank |-> "major", collectId |-> "all-saints"] >>

isSameDay(a, b) ==
  /\ getFullYear(a) = getFullYear(b)
  /\ getMonth(a) = getMonth(b)
  /\ getDate(a) = getDate(b)

\* Date.UTC of the civil fields, in days; the quotient by msPerDay is exact.
daysBetween(a, b) ==
  LET aUtc == NewDate(getFullYear(a), getMonth(a), getDate(a))
      bUtc == NewDate(getFullYear(b), getMonth(b), getDate(b))
  IN  bUtc - aUtc

isDateInRange(d, start, end) ==
  daysBetween(start, d) >= 0 /\ daysBetween(d, end) >= 0

nextSundayOnOrAfter(d) ==
  LET dayOfWeek == getDay(d)
  IN  IF dayOfWeek = 0 THEN d ELSE d + (7 - dayOfWeek)

\* calendar.ts getPsalterDayNumber without the rule for the last day of
\* February.
getPsalterDayNumberNoFebruary(d) ==
  IF getDate(d) < 30 THEN getDate(d) ELSE 30

getPsalterDayNumber(d) ==
  LET dayOfMonth == getDate(d)
      month == getMonth(d)
      year == getFullYear(d)
      daysInFeb == getDate(NewDate(year, 2, 0))
  IN  IF month = 1 /\ dayOfMonth = daysInFeb
        THEN 30
        ELSE IF dayOfMonth < 30 THEN dayOfMonth ELSE 30

\* SeasonRanges with the Easter range running through Ascension Day itself.
SeasonRangesEasterOverlap(d, f) ==
  LET year == getFullYear(d)
  IN  << [season |-> "holy-week", start |-> f.palmSunday, end |-> addDays(f.easterDay, -1)],
         [season |-> "lent", start |-> f.ashWednesday, end |-> addDays(f.palmSunday, -1)],
         [season |-> "pre-lent", start |-> f.septuagesima, end |-> addDays(f.ashWednesday, -1)],
         [season |-> "easter", start |-> f.easterDay, end |-> f.ascensionDay],
         [season |-> "ascension", start |-> f.ascensionDay, end |-> addDays(f.whitsunday, -1)],
         [season |-> "whitsun", start |-> f.whitsunday, end |-> addDays(f.trinitySunday, -1)],
         [season |-> "trinity", start |-> f.trinitySunday, end |-> addDays(f.adventSunday, -1)],
         [season |-> "advent", start |-> f.adventSunday, end |-> NewDate(year, 11, 24)],
         [season |-> "christmas", start |-> NewDate(year, 11, 25), end |-> NewDate(year, 11, 31)],
         [season |-> "christmas", start |-> NewDate(year, 0, 1), end |-> NewDate(year, 0, 5)],
         [season |-> "epiphany", start |-> f.epiphany, end |-> addDays(f.septuagesima, -1)] >>

\* SeasonRanges with Advent ending on 23 December.
SeasonRangesAdventShort(d, f) ==
  LET year == getFullYear(d)
  IN  << [season |-> "holy-week", start |-> f.palmSunday, end |-> addDays(f.easterDay, -1)],
         [season |-> "lent", start |-> f.ashWednesday, end |-> addDays(f.palmSunday, -1)],
         [season |-> "pre-lent", start |-> f.septuagesima, end |-> addDays(f.ashWednesday, -1)],
         [season |-> "easter", start |-> f.easterDay, end |-> addDays(f.ascensionDay, -1)],
         [season |-> "ascension", start |-> f.ascensionDay, end |-> addDays(f.whitsunday, -1)],
         [season |-> "whitsun", start |-> f.whitsunday, end |-> addDays(f.trinitySunday, -1)],
         [season |-> "trinity", start |-> f.trinitySunday, end |-> addDays(f.adventSunday, -1)],
         [season |-> "advent", start |-> f.adventSunday, end |-> NewDate(year, 11, 23)],
         [season |-> "christmas", start |-> NewDate(year, 11, 25), end |-> NewDate(year, 11, 31)],
         [season |-> "christmas", start |-> NewDate(year, 0, 1), end |-> NewDate(year, 0, 5)],
         [season |-> "epiphany", start |-> f.epiphany, end |-> addDays(f.septuagesima, -1)] >>

\* The inclusive ranges determineSeason tests, in the order it tests them.
SeasonRanges(d, f) ==
  LET year == getFullYear(d)
  IN  << [season |-> "holy-week", start |-> f.palmSunday, end |-> addDays(f.easterDay, -1)],
         [season |-> "lent", start |-> f.ashWednesday, end |-> addDays(f.palmSunday, -1)],
         [season |-> "pre-lent", start |-> f.septuagesima, end |-> addDays(f.ashWednesday, -1)],
         [season |-> "easter", start |-> f.easterDay, end |-> addDays(f.ascensionDay, -1)],
         [season |-> "ascension", start |-> f.ascensionDay, end |-> addDays(f.whitsunday, -1)],
         [season |-> "whitsun", start |-> f.whitsunday, end |-> addDays(f.trinitySunday, -1)],
         [season |-> "trinity", start |-> f.trinitySunday, end |-> addDays(f.adventSunday, -1)],
         [season |-> "advent", start |-> f.adventSunday, end |-> NewDate(year, 11, 24)],
         [season |-> "christmas", start |-> NewDate(year, 11, 25), end |-> NewDate(year, 11, 31)],
         [season |-> "christmas", start |-> NewDate(year, 0, 1), end |-> NewDate(year, 0, 5)],
         [season |-> "epiphany", start |-> f.epiphany, end |-> addDays(f.septuagesima, -1)] >>

\* The ranges of the cascade that contain the date.
MatchingRanges(d, f) ==
  LET r == SeasonRanges(d, f)
  IN  {i \in DOMAIN r : isDateInRange(d, r[i].start, r[i].end)}

\* The return statement determineSeason takes: the index of the first range
\* that matches, 0 for the final fallback return.
determineSeasonBranch(d, f) ==
  LET m == MatchingRanges(d, f)
  IN  IF m = {} THEN 0 ELSE CHOOSE i \in m : \A j \in m : i <= j

determineSeason(d, f) ==
  LET b == determineSeasonBranch(d, f)
  IN  IF b = 0 THEN "trinity" ELSE SeasonRanges(d, f)[b].season

\* computeWeekOfSeason counting the weeks after Trinity from 1.
computeWeekOfSeasonTrinityFromOne(d, season, f) ==
  CASE season = "advent" -> (daysBetween(f.adventSunday, d) \div 7) + 1
    [] season = "epiphany" ->
         LET firstSundayAfterEpiphany == nextSundayOnOrAfter(addDays(f.epiphany, 1))
         IN  IF daysBetween(d, firstSundayAfterEpiphany) > 0
               THEN 0
               ELSE (daysBetween(firstSundayAfterEpiphany, d) \div 7) + 1
    [] season = "lent" -> (daysBetween(f.ashWednesday, d) \div 7) + 1
    [] season = "easter" -> (daysBetween(f.easterDay, d) \div 7) + 1
    [] season = "trinity" -> (daysBetween(f.trinitySunday, d) \div 7) + 1
    [] OTHER -> 1

computeWeekOfSeason(d, season, f) ==
  CASE season = "advent" -> (daysBetween(f.adventSunday, d) \div 7) + 1
    [] season = "epiphany" ->
         LET firstSundayAfterEpiphany == nextSundayOnOrAfter(addDays(f.epiphany, 1))
         IN  IF daysBetween(d, firstSundayAfterEpiphany) > 0
               THEN 0
               ELSE (daysBetween(firstSundayAfterEpiphany, d) \div 7) + 1
    [] season = "lent" -> (daysBetween(f.ashWednesday, d) \div 7) + 1
    [] season = "easter" -> (daysBetween(f.easterDay, d) \div 7) + 1
    [] season = "trinity" -> daysBetween(f.trinitySunday, d) \div 7
    [] OTHER -> 1

seasonNames ==
  [s \in {"advent", "christmas", "epiphany", "pre-lent", "lent", "holy-week",
          "easter", "ascension", "whitsun", "trinity"} |->
     CASE s = "advent" -> "Advent"
       [] s = "christmas" -> "Christmas"
       [] s = "epiphany" -> "Epiphany"
       [] s = "pre-lent" -> "Pre-Lent"
       [] s = "lent" -> "Lent"
       [] s = "holy-week" -> "Holy Week"
       [] s = "easter" -> "Easter"
       [] s = "ascension" -> "Ascensiontide"
       [] s = "whitsun" -> "Whitsun"
       [] s = "trinity" -> "Trinity"]

dayNames ==
  <<"Sunday", "Monday", "Tuesday", "Wednesday", "Thursday", "Friday", "Saturday">>

\* ordinals[0] of the source is ordinals[1] here.
ordinals ==
  <<"", "First", "Second", "Third", "Fourth", "Fifth", "Sixth", "Seventh",
    "Eighth", "Ninth", "Tenth", "Eleventh", "Twelfth", "Thirteenth", "Fourteenth",
    "Fifteenth", "Sixteenth", "Seventeenth", "Eighteenth", "Nineteenth", "Twentieth",
    "Twenty-first", "Twenty-second", "Twenty-third", "Twenty-fourth", "Twenty-fifth">>

formatDayName(season, week, dayOfWeek) ==
  LET seasonName == seasonNames[season]
      ord == IF week + 1 \in DOMAIN ordinals
               THEN ordinals[week + 1]
               ELSE ToString(week) \o "th"
  IN  IF dayOfWeek = 0
        THEN CASE season = "trinity" -> "The " \o ord \o " Sunday after Trinity"
               [] season = "advent" -> "The " \o ord \o " Sunday in Advent"
               [] season = "lent" -> "The " \o ord \o " Sunday in Lent"
               [] season = "easter" -> "The " \o ord \o " Sunday after Easter"
               [] season = "epiphany" -> "The " \o ord \o " Sunday after Epiphany"
               [] OTHER -> seasonName \o " " \o ord \o " Sunday"
        ELSE dayNames[dayOfWeek + 1] \o " in " \o seasonName \o " " \o ToString(week)

computeCollectId(season, week) == season \o "-" \o ToString(week)

NoFixed ==
  [month |-> -1, day |-> -1, name |-> Undefined, rank |-> Undefined, collectId |-> Undefined]

\* FIXED_HOLY_DAYS.find(...): the first entry of the date's month and day.
findFixedHolyDay(d) ==
  LET hits == {i \in DOMAIN FIXED_HOLY_DAYS :
                 /\ FIXED_HOLY_DAYS[i].month = getMonth(d)
                 /\ FIXED_HOLY_DAYS[i].day = getDate(d)}
  IN  IF hits = {}
        THEN NoFixed
        ELSE FIXED_HOLY_DAYS[CHOOSE i \in hits : \A j \in hits : i <= j]

NoMoveable == [name |-> Undefined, collectId |-> Undefined, rank |-> Undefined]

\* The if / else-if chain over the seven moveable feast days.
matchMoveableFeast(d, f) ==
  IF isSameDay(d, f.easterDay)
    THEN [name |-> "Easter Day", collectId |-> "easter-day", rank |-> "principal"]
  ELSE IF isSameDay(d, f.ascensionDay)
    THEN [name |-> "Ascension Day", collectId |-> "ascension-day", rank |-> "principal"]
  ELSE IF isSameDay(d, f.whitsunday)
    THEN [name |-> "Whitsunday", collectId |-> "whitsunday", rank |-> "principal"]
  ELSE IF isSameDay(d, f.trinitySunday)
    THEN [name |-> "Trinity Sunday", collectId |-> "trinity-sunday", rank |-> "principal"]
  ELSE IF isSameDay(d, f.ashWednesday)
    THEN [name |-> "Ash Wednesday", collectId |-> "ash-wednesday", rank |-> "major"]
  ELSE IF isSameDay(d, f.goodFriday)
    THEN [name |-> "Good Friday", collectId |-> "good-friday", rank |-> "major"]
  ELSE IF isSameDay(d, f.palmSunday)
    THEN [name |-> "Palm Sunday", collectId |-> "palm-sunday", rank |-> "major"]
  ELSE NoMoveable

\* applyPrecedence with the fixed holy day tested before the moveable feast.
applyPrecedenceFixedFirst(moveable, fixedHolyDay, isSunday, season, week, dayOfWeek) ==
  LET ordinary == [isHolyDay |-> FALSE,
                   holyDayName |-> Undefined,
                   holyDayRank |-> Undefined,
                   collectId |-> computeCollectId(season, week),
                   name |-> formatDayName(season, week, dayOfWeek)]
      theMoveable == [isHolyDay |-> TRUE,
                      holyDayName |-> moveable.name,
                      holyDayRank |-> moveable.rank,
                      collectId |-> moveable.collectId,
                      name |-> moveable.name]
  IN  IF fixedHolyDay # NoFixed
        THEN IF isSunday /\ fixedHolyDay.rank = "minor"
               THEN IF moveable.name # Undefined THEN theMoveable ELSE ordinary
               ELSE [isHolyDay |-> TRUE,
                     holyDayName |-> fixedHolyDay.name,
                     holyDayRank |-> fixedHolyDay.rank,
                     collectId |-> fixedHolyDay.collectId,
                     name |-> fixedHolyDay.name]
      ELSE IF moveable.name # Undefined THEN theMoveable
      ELSE ordinary

\* applyPrecedence without the Sunday exception for minor fixed holy days.
applyPrecedenceNoSundayRule(moveable, fixedHolyDay, isSunday, season, week, dayOfWeek) ==
  IF moveable.name # Undefined
    THEN [isHolyDay |-> TRUE,
          holyDayName |-> moveable.name,
          holyDayRank |-> moveable.rank,
          collectId |-> moveable.collectId,
          name |-> moveable.name]
  ELSE IF fixedHolyDay # NoFixed
    THEN [isHolyDay |-> TRUE,
          holyDayName |-> fixedHolyDay.name,
          holyDayRank |-> fixedHolyDay.rank,
          collectId |-> fixedHolyDay.collectId,
          name |-> fixedHolyDay.name]
  ELSE [isHolyDay |-> FALSE,
        holyDayName |-> Undefined,
        holyDayRank |-> Undefined,
        collectId |-> computeCollectId(season, week),
        name |-> formatDayName(season, week, dayOfWeek)]

\* applyPrecedence where a fixed holy day keeps the collect key of the week.
applyPrecedenceFixedKeepsWeekCollect(moveable, fixedHolyDay, isSunday, season, week, dayOfWeek) ==
  IF moveable.name # Undefined
    THEN [isHolyDay |-> TRUE,
          holyDayName |-> moveable.name,
          holyDayRank |-> moveable.rank,
          collectId |-> moveable.collectId,
          name |-> moveable.name]
  ELSE IF fixedHolyDay # NoFixed /\ ~(isSunday /\ fixedHolyDay.rank = "minor")
    THEN [isHolyDay |-> TRUE,
          holyDayName |-> fixedHolyDay.name,
          holyDayRank |-> fixedHolyDay.rank,
          collectId |-> computeCollectId(season, week),
          name |-> fixedHolyDay.name]
  ELSE [isHolyDay |-> FALSE,
        holyDayName |-> Undefined,
        holyDayRank |-> Undefined,
        collectId |-> computeCollectId(season, week),
        name |-> formatDayName(season, week, dayOfWeek)]

\* The precedence block of resolveLiturgicalDay: the identity of the day
\* (isHolyDay, holyDayName, holyDayRank, collectId, name) chosen among the
\* moveable feast, the fixed holy day and the ordinary day.
applyPrecedence(moveable, fixedHolyDay, isSunday, season, week, dayOfWeek) ==
  LET ordinary == [isHolyDay |-> FALSE,
                   holyDayName |-> Undefined,
                   holyDayRank |-> Undefined,
                   collectId |-> computeCollectId(season, week),
                   name |-> formatDayName(season, week, dayOfWeek)]
  IN  IF moveable.name # Undefined /\ moveable.rank = "principal"
        THEN [isHolyDay |-> TRUE,
              holyDayName |-> moveable.name,
              holyDayRank |-> moveable.rank,
              collectId |-> moveable.collectId,
              name |-> moveable.name]
      ELSE IF moveable.name # Undefined
        THEN [isHolyDay |-> TRUE,
              holyDayName |-> moveable.name,
              holyDayRank |-> moveable.rank,
              collectId |-> moveable.collectId,
              name |-> moveable.name]
      ELSE IF fixedHolyDay # NoFixed
        THEN IF isSunday /\ fixedHolyDay.rank = "minor"
               THEN ordinary
               ELSE [isHolyDay |-> TRUE,
                     holyDayName |-> fixedHolyDay.name,
                     holyDayRank |-> fixedHolyDay.rank,
                     collectId |-> fixedHolyDay.collectId,
                     name |-> fixedHolyDay.name]
      ELSE ordinary

\* The record resolveLiturgicalDay returns; p is the identity the precedence
\* block chose.
buildLiturgicalDay(d, season, week, dayOfWeek, psalmsDay, p) ==
  [date |-> d,
   season |-> season,
   weekOfSeason |-> week,
   dayOfWeek |-> dayOfWeek,
   name |-> p.name,
   isHolyDay |-> p.isHolyDay,
   holyDayName |-> p.holyDayName,
   holyDayRank |-> p.holyDayRank,
   collectId |-> p.collectId,
   isSunday |-> dayOfWeek = 0,
   psalmsDay |-> psalmsDay]

\* resolveLiturgicalDay from the week of the season on.
resolveInWeek(d, f, season, week) ==
  buildLiturgicalDay(d, season, week, getDay(d), getPsalterDayNumber(d),
    applyPrecedence(matchMoveableFeast(d, f), findFixedHolyDay(d),
                    getDay(d) = 0, season, week, getDay(d)))

\* resolveLiturgicalDay from the season on.
resolveInSeason(d, f, season) ==
  resolveInWeek(d, f, season, computeWeekOfSeason(d, season, f))

\* resolveLiturgicalDay once the year's moveable feasts are computed.
resolveWithFeasts(d, f) == resolveInSeason(d, f, determineSeason(d, f))

resolveLiturgicalDay(d) ==
  resolveWithFeasts(d, computeMoveableFeasts(getFullYear(d)))

\* ------------------------------------------------------------------------
\* engine/lectionary-resolver.ts: table cache and resolveReadings
\* ------------------------------------------------------------------------

\* The plans loadLectionary has a table for.
Plans == {"1662-original", "1662-revised", "mcheyne", "bibleproject"}

\* A plan identifier outside PlanId, as a caller bug would pass it.
PlanIds == Plans \cup {"unknown"}

\* The tables are null until loaded; a loaded table is the object the
\* k-th fetch of the plan's file produced (k >= 1).
Null == 0

CallIds == 1..MaxCalls

IdleCall ==
  [pc |-> "idle", plan |-> "none", hasEntry |-> FALSE, load |-> "none",
   fetchId |-> 0, result |-> "pending"]

InitTables ==
  /\ cache = [p \in Plans |-> Null]
  /\ calls = [c \in CallIds |-> IdleCall]
  /\ fetched = [p \in Plans |-> 0]

\* resolveReadings(date, session, planId, ...) is called: it runs
\* loadLectionary synchronously up to its first await. When the plan is known
\* and its table is null the fetch is issued; otherwise loadLectionary
\* returns at once and resolveReadings awaits the settled promise. hasEntry
\* says whether the plan's table has an entry for the call's date.
StartResolve(c, planId, hasEntry) ==
  /\ calls[c].pc = "idle"
  /\ \A b \in CallIds : b < c => calls[b].pc # "idle"
  /\ IF planId \in Plans /\ cache[planId] = Null
       THEN /\ fetched' = [fetched EXCEPT ![planId] = @ + 1]
            /\ calls' = [calls EXCEPT ![c] =
                 [pc |-> "fetch", plan |-> planId, hasEntry |-> hasEntry,
                  load |-> "pending", fetchId |-> fetched[planId] + 1,
                  result |-> "pending"]]
       ELSE /\ fetched' = fetched
            /\ calls' = [calls EXCEPT ![c] =
                 [pc |-> "loaded", plan |-> planId, hasEntry |-> hasEntry,
                  load |-> "none", fetchId |-> 0, result |-> "pending"]]
  /\ UNCHANGED cache
  /\ UNCHANGED calVars
  /\ UNCHANGED resolveVars
  /\ UNCHANGED planVars
  /\ UNCHANGED officeVars
  /\ UNCHANGED completionVars

\* The fetch resolves with a response; resp.json() is started.
FetchResolves(c) ==
  /\ calls[c].pc = "fetch"
  /\ calls' = [calls EXCEPT ![c].pc = "json"]
  /\ UNCHANGED <<cache, fetched>>
  /\ UNCHANGED calVars
  /\ UNCHANGED resolveVars
  /\ UNCHANGED planVars
  /\ UNCHANGED officeVars
  /\ UNCHANGED completionVars

\* LoadRejects with the rejection caught inside loadLectionary, which then
\* returns normally.
LoadRejectsSwallowed(c) ==
  /\ calls[c].pc \in {"fetch", "json"}
  /\ calls' = [calls EXCEPT ![c].pc = "loaded", ![c].load = "failed"]
  /\ UNCHANGED <<cache, fetched>>
  /\ UNCHANGED calVars
  /\ UNCHANGED resolveVars
  /\ UNCHANGED planVars
  /\ UNCHANGED officeVars
  /\ UNCHANGED completionVars

\* The fetch or resp.json() rejects: nothing catches it, so loadLectionary
\* and the resolveReadings call awaiting it reject.
LoadRejects(c) ==
  /\ calls[c].pc \in {"fetch", "json"}
  /\ calls' = [calls EXCEPT ![c].pc = "done", ![c].load = "failed",
                            ![c].result = "error"]
  /\ UNCHANGED <<cache, fetched>>
  /\ UNCHANGED calVars
  /\ UNCHANGED resolveVars
  /\ UNCHANGED planVars
  /\ UNCHANGED officeVars
  /\ UNCHANGED completionVars

\* resp.json() resolves: the table variable of the plan is assigned and
\* loadLectionary returns.
JsonResolves(c) ==
  /\ calls[c].pc = "json"
  /\ cache' = [cache EXCEPT ![calls[c].plan] = calls[c].fetchId]
  /\ calls' = [calls EXCEPT ![c].pc = "loaded", ![c].load = "ok"]
  /\ UNCHANGED fetched
  /\ UNCHANGED calVars
  /\ UNCHANGED resolveVars
  /\ UNCHANGED planVars
  /\ UNCHANGED officeVars
  /\ UNCHANGED completionVars

\* The switch of resolveReadings and the resolve function it dispatches to:
\* empty lists when the table is null or has no entry, the entry's readings
\* otherwise; no case matches an unknown plan and the function returns
\* undefined.
dispatchResolve(planId, table, hasEntry) ==
  IF planId \notin Plans THEN "undefined"
  ELSE IF table[planId] = Null THEN "empty"
  ELSE IF ~hasEntry THEN "empty"
  ELSE "readings"

\* resolveReadings continues after `await loadLectionary(planId)`.
FinishResolve(c) ==
  /\ calls[c].pc = "loaded"
  /\ calls' = [calls EXCEPT ![c].pc = "done",
                 ![c].result = dispatchResolve(calls[c].plan, cache, calls[c].hasEntry)]
  /\ UNCHANGED <<cache, fetched>>
  /\ UNCHANGED calVars
  /\ UNCHANGED resolveVars
  /\ UNCHANGED planVars
  /\ UNCHANGED officeVars
  /\ UNCHANGED completionVars

\* ------------------------------------------------------------------------
\* engine/psalter.ts and the appointed psalms of plans/bcp-1662.ts
\* ------------------------------------------------------------------------

Sessions == {"morning", "evening"}

NoPsalms == [session |-> "none", psalterDay |-> -1, psalmNumbers |-> <<>>,
             omitVenite |-> FALSE, refs |-> <<>>]

\* PSALTER_30_DAY with Psalm 70 appointed on day 13 and again on day 14.
PSALTER_30_DAY_Psalm70Twice ==
  <<
     [day |-> 1, morning |-> <<1, 2, 3, 4, 5>>, evening |-> <<6, 7, 8>>],
     [day |-> 2, morning |-> <<9, 10, 11>>, evening |-> <<12, 13, 14>>],
     [day |-> 3, morning |-> <<15, 16, 17>>, evening |-> <<18>>],
     [day |-> 4, morning |-> <<19, 20, 21>>, evening |-> <<22, 23>>],
     [day |-> 5, morning |-> <<24, 25, 26>>, evening |-> <<27, 28, 29>>],
     [day |-> 6, morning |-> <<30, 31>>, evening |-> <<32, 33, 34>>],
     [day |-> 7, morning |-> <<35, 36>>, evening |-> <<37>>],
     [day |-> 8, morning |-> <<38, 39, 40>>, evening |-> <<41, 42, 43>>],
     [day |-> 9, morning |-> <<44, 45, 46>>, evening |-> <<47, 48, 49>>],
     [day |-> 10, morning |-> <<50, 51, 52>>, evening |-> <<53, 54, 55>>],
     [day |-> 11, morning |-> <<56, 57, 58>>, evening |-> <<59, 60, 61>>],
     [day |-> 12, morning |-> <<62, 63, 64>>, evening |-> <<65, 66, 67>>],
     [day |-> 13, morning |-> <<68>>, evening |-> <<69, 70>>],
     [day |-> 14, morning |-> <<70, 71, 72>>, evening |-> <<73, 74>>],
     [day |-> 15, morning |-> <<75, 76, 77>>, evening |-> <<78>>],
     [day |-> 16, morning |-> <<79, 80, 81>>, evening |-> <<82, 83, 84, 85>>],
     [day |-> 17, morning |-> <<86, 87, 88>>, evening |-> <<89>>],
     [day |-> 18, morning |-> <<90, 91, 92>>, evening |-> <<93, 94>>],
     [day |-> 19, morning |-> <<95, 96, 97>>, evening |-> <<98, 99, 100, 101>>],
     [day |-> 20, morning |-> <<102, 103>>, evening |-> <<104>>],
     [day |-> 21, morning |-> <<105>>, evening |-> <<106>>],
     [day |-> 22, morning |-> <<107>>, evening |-> <<108, 109>>],
     [day |-> 23, morning |-> <<110, 111, 112, 113>>, evening |-> <<114, 115>>],
     [day |-> 24, morning |-> <<116, 117, 118>>, evening |-> <<119>>],
     [day |-> 25, morning |-> <<119>>, evening |-> <<119>>],
     [day |-> 26, morning |-> <<119>>, evening |-> <<119>>],
     [day |-> 27, morning |-> <<120, 121, 122, 123, 124, 125>>, evening |-> <<126, 127, 128, 129, 130, 131>>],
     [day |-> 28, morning |-> <<132, 133, 134, 135>>, evening |-> <<136, 137, 138>>],
     [day |-> 29, morning |-> <<139, 140, 141>>, evening |-> <<142, 143>>],
     [day |-> 30, morning |-> <<144, 145, 146>>, evening |-> <<147, 148, 149, 150>>] >>

PSALTER_30_DAY ==
  <<
     [day |-> 1, morning |-> <<1, 2, 3, 4, 5>>, evening |-> <<6, 7, 8>>],
     [day |-> 2, morning |-> <<9, 10, 11>>, evening |-> <<12, 13, 14>>],
     [day |-> 3, morning |-> <<15, 16, 17>>, evening |-> <<18>>],
     [day |-> 4, morning |-> <<19, 20, 21>>, evening |-> <<22, 23>>],
     [day |-> 5, morning |-> <<24, 25, 26>>, evening |-> <<27, 28, 29>>],
     [day |-> 6, morning |-> <<30, 31>>, evening |-> <<32, 33, 34>>],
     [day |-> 7, morning |-> <<35, 36>>, evening |-> <<37>>],
     [day |-> 8, morning |-> <<38, 39, 40>>, evening |-> <<41, 42, 43>>],
     [day |-> 9, morning |-> <<44, 45, 46>>, evening |-> <<47, 48, 49>>],
     [day |-> 10, morning |-> <<50, 51, 52>>, evening |-> <<53, 54, 55>>],
     [day |-> 11, morning |-> <<56, 57, 58>>, evening |-> <<59, 60, 61>>],
     [day |-> 12, morning |-> <<62, 63, 64>>, evening |-> <<65, 66, 67>>],
     [day |-> 13, morning |-> <<68>>, evening |-> <<69, 70>>],
     [day |-> 14, morning |-> <<71, 72>>, evening |-> <<73, 74>>],
     [day |-> 15, morning |-> <<75, 76, 77>>, evening |-> <<78>>],
     [day |-> 16, morning |-> <<79, 80, 81>>, evening |-> <<82, 83, 84, 85>>],
     [day |-> 17, morning |-> <<86, 87, 88>>, evening |-> <<89>>],
     [day |-> 18, morning |-> <<90, 91, 92>>, evening |-> <<93, 94>>],
     [day |-> 19, morning |-> <<95, 96, 97>>, evening |-> <<98, 99, 100, 101>>],
     [day |-> 20, morning |-> <<102, 103>>, evening |-> <<104>>],
     [day |-> 21, morning |-> <<105>>, evening |-> <<106>>],
     [day |-> 22, morning |-> <<107>>, evening |-> <<108, 109>>],
     [day |-> 23, morning |-> <<110, 111, 112, 113>>, evening |-> <<114, 115>>],
     [day |-> 24, morning |-> <<116, 117, 118>>, evening |-> <<119>>],
     [day |-> 25, morning |-> <<119>>, evening |-> <<119>>],
     [day |-> 26, morning |-> <<119>>, evening |-> <<119>>],
     [day |-> 27, morning |-> <<120, 121, 122, 123, 124, 125>>, evening |-> <<126, 127, 128, 129, 130, 131>>],
     [day |-> 28, morning |-> <<132, 133, 134, 135>>, evening |-> <<136, 137, 138>>],
     [day |-> 29, morning |-> <<139, 140, 141>>, evening |-> <<142, 143>>],
     [day |-> 30, morning |-> <<144, 145, 146>>, evening |-> <<147, 148, 149, 150>>] >>

\* PSALM_119_DIVISIONS with a verse missing between two portions.
PSALM_119_DIVISIONS_Gap ==
  ("24-evening" :> [startVerse |-> 1, endVerse |-> 32]) @@
  ("25-morning" :> [startVerse |-> 33, endVerse |-> 72]) @@
  ("25-evening" :> [startVerse |-> 74, endVerse |-> 104]) @@
  ("26-morning" :> [startVerse |-> 105, endVerse |-> 144]) @@
  ("26-evening" :> [startVerse |-> 145, endVerse |-> 176])

PSALM_119_DIVISIONS ==
  ("24-evening" :> [startVerse |-> 1, endVerse |-> 32]) @@
  ("25-morning" :> [startVerse |-> 33, endVerse |-> 72]) @@
  ("25-evening" :> [startVerse |-> 73, endVerse |-> 104]) @@
  ("26-morning" :> [startVerse |-> 105, endVerse |-> 144]) @@
  ("26-evening" :> [startVerse |-> 145, endVerse |-> 176])

\* psalter.ts getPsalterDayNumber without the rule for the last day of
\* February.
psalter_getPsalterDayNumberNoFebruary(d) ==
  IF getDate(d) < 30 THEN getDate(d) ELSE 30

\* getPsalterDayNumber of engine/psalter.ts (calendar.ts has its own copy,
\* modelled above under the source's name).
psalter_getPsalterDayNumber(d) ==
  LET dayOfMonth == getDate(d)
      month == getMonth(d)
      year == getFullYear(d)
      daysInFeb == getDate(NewDate(year, 2, 0))
  IN  IF month = 1 /\ dayOfMonth = daysInFeb
        THEN 30
        ELSE IF dayOfMonth < 30 THEN dayOfMonth ELSE 30

\* entry = PSALTER_30_DAY[psalterDay - 1] of the 0-indexed array, and the
\* session's list of it.
getPsalmsForEntry(psalterDay, session) ==
  IF psalterDay \notin 1..Len(PSALTER_30_DAY) THEN <<>>
  ELSE IF session = "morning" THEN PSALTER_30_DAY[psalterDay].morning
  ELSE PSALTER_30_DAY[psalterDay].evening

getPsalmsForDay(d, session) ==
  getPsalmsForEntry(psalter_getPsalterDayNumber(d), session)

shouldOmitVenite(d) == psalter_getPsalterDayNumber(d) = 19

\* The reference buildPsalms loads for one appointed psalm: the portion of
\* Psalm 119 looked up under `${psalterDay}-${session}` if there is one, the
\* whole psalm otherwise.
psalmRef(psNum, psalterDay, session) ==
  LET divisionKey == ToString(psalterDay) \o "-" \o session
  IN  IF psNum = 119 /\ divisionKey \in DOMAIN PSALM_119_DIVISIONS
        THEN [book |-> "Psalms", startChapter |-> 119,
              startVerse |-> PSALM_119_DIVISIONS[divisionKey].startVerse,
              endChapter |-> 119,
              endVerse |-> PSALM_119_DIVISIONS[divisionKey].endVerse]
        ELSE [book |-> "Psalms", startChapter |-> psNum, endChapter |-> psNum]

\* buildPsalms(date, session, litDay, translation): the appointed psalms.
buildPsalms(d, session, psalmNumbers, psalmsDay) ==
  [session |-> session,
   psalterDay |-> psalter_getPsalterDayNumber(d),
   psalmNumbers |-> psalmNumbers,
   omitVenite |-> shouldOmitVenite(d),
   refs |-> [i \in DOMAIN psalmNumbers |-> psalmRef(psalmNumbers[i], psalmsDay, session)]]

\* ------------------------------------------------------------------------
\* The time zone of the runtime
\* ------------------------------------------------------------------------

\* Date.getTime() is counted here in hours, 86400000 ms being 24 hours.
HoursPerDay == 24

\* Zones without daylight saving time, with it in the northern summer and
\* with it in the southern summer.
TimeZones == {"UTC", "Europe/London", "Australia/Sydney"}

lastSundayOf(y, m0) ==
  NewDate(y, m0 + 1, 0) - getDay(NewDate(y, m0 + 1, 0))

firstSundayOf(y, m0) ==
  NewDate(y, m0, 1) + ((7 - getDay(NewDate(y, m0, 1))) % 7)

\* The offset from UTC, in hours, in force at the local midnight that
\* starts day d.  Europe/London changes at 01:00 UTC on the last Sundays of
\* March and October, Australia/Sydney at 02:00 and 03:00 local time on the
\* first Sundays of October and April.
utcOffset(zone, d) ==
  IF zone = "Europe/London"
    THEN IF /\ d > lastSundayOf(getFullYear(d), 2)
            /\ d <= lastSundayOf(getFullYear(d), 9)
           THEN 1 ELSE 0
  ELSE IF zone = "Australia/Sydney"
    THEN IF \/ d <= firstSundayOf(getFullYear(d), 3)
            \/ d > firstSundayOf(getFullYear(d), 9)
           THEN 11 ELSE 10
  ELSE 0

\* date.getTime() of the local midnight that starts day d, in hours.
getTime(zone, d) == d * HoursPerDay - utcOffset(zone, d)

\* ------------------------------------------------------------------------
\* engine/lectionary-resolver.ts: resolution on loaded tables
\* ------------------------------------------------------------------------

NotLoaded == [loaded |-> FALSE]
Loaded(data) == [loaded |-> TRUE, data |-> data]

EmptyReadings == [first |-> <<>>, second |-> <<>>]

\* String(n).padStart(2, '0')
padStart2(n) == IF n < 10 THEN "0" \o ToString(n) ELSE ToString(n)

\* Math.floor(diff / 86400000) + 1
dayOfYear(zone, d) ==
  ((getTime(zone, d) - getTime(zone, NewDate(getFullYear(d), 0, 1)))
     \div HoursPerDay) + 1

DAY_NAMES ==
  <<"sunday", "monday", "tuesday", "wednesday", "thursday", "friday", "saturday">>

specialKeys ==
  ("Easter Day" :> "easterday") @@
  ("Ascension Day" :> "ascension") @@
  ("Whitsunday" :> "whitsunday") @@
  ("Trinity Sunday" :> "trinity-sunday") @@
  ("Ash Wednesday" :> "ashwednesday") @@
  ("Good Friday" :> "goodfriday") @@
  ("Palm Sunday" :> "palmsunday") @@
  ("Christmas Day" :> "christmas")

revisedPrefix(season, week) ==
  IF season = "advent" THEN "advent" \o ToString(week)
  ELSE IF season = "christmas" THEN "christmas" \o ToString(week)
  ELSE IF season = "epiphany" THEN "epiphany" \o ToString(week)
  ELSE IF season = "pre-lent"
    THEN IF week = 1 THEN "septuagesima"
         ELSE IF week = 2 THEN "sexagesima"
         ELSE "quinquagesima"
  ELSE IF season = "lent" THEN "lent" \o ToString(week)
  ELSE IF season = "holy-week" THEN "holyweek"
  ELSE IF season = "easter" THEN "easter" \o ToString(week)
  ELSE IF season = "ascension" THEN "ascension"
  ELSE IF season = "whitsun" THEN "whitsun"
  ELSE IF season = "trinity" THEN "trinity" \o ToString(week)
  ELSE season \o ToString(week)

\* An unset holyDayName is falsy, and so is a name without a special key.
computeRevisedKey(day) ==
  IF day.holyDayName # Undefined /\ day.holyDayName \in DOMAIN specialKeys
    THEN specialKeys[day.holyDayName]
  ELSE IF day.dayOfWeek = 0
    THEN revisedPrefix(day.season, day.weekOfSeason)
  ELSE revisedPrefix(day.season, day.weekOfSeason) \o "-" \o DAY_NAMES[day.dayOfWeek + 1]

\* resolve1662Original looking its entry up under an unpadded 'M-D' key.
resolve1662OriginalUnpadded(table, d, session) ==
  LET key == ToString(getMonth(d) + 1) \o "-" \o ToString(getDate(d))
  IN  IF ~table.loaded THEN EmptyReadings
      ELSE IF key \notin DOMAIN table.data THEN EmptyReadings
      ELSE IF session = "morning"
        THEN [first |-> table.data[key].morning.first,
              second |-> table.data[key].morning.second]
      ELSE [first |-> table.data[key].evening.first,
            second |-> table.data[key].evening.second]

resolve1662Original(table, d, session) ==
  LET key == padStart2(getMonth(d) + 1) \o "-" \o padStart2(getDate(d))
  IN  IF ~table.loaded THEN EmptyReadings
      ELSE IF key \notin DOMAIN table.data THEN EmptyReadings
      ELSE IF session = "morning"
        THEN [first |-> table.data[key].morning.first,
              second |-> table.data[key].morning.second]
      ELSE [first |-> table.data[key].evening.first,
            second |-> table.data[key].evening.second]

\* s.first?.primary ?? [] and s.second?.primary ?? []
primaryOf(s, lesson) ==
  IF lesson \in DOMAIN s /\ "primary" \in DOMAIN s[lesson]
    THEN s[lesson].primary
    ELSE <<>>

primaryReadings(s) ==
  [first |-> primaryOf(s, "first"), second |-> primaryOf(s, "second")]

\* resolveFixed taking the evening readings of a fixed holy day from its
\* first evensong.
resolveFixedFirstEvensong(fixed, session, day) ==
  IF day.isHolyDay /\ day.holyDayName # Undefined /\ day.collectId \in DOMAIN fixed
    THEN IF session = "morning" /\ "morning" \in DOMAIN fixed[day.collectId]
           THEN primaryReadings(fixed[day.collectId].morning)
         ELSE IF session = "evening" /\ "firstEvensong" \in DOMAIN fixed[day.collectId]
           THEN primaryReadings(fixed[day.collectId].firstEvensong)
         ELSE EmptyReadings
    ELSE EmptyReadings

\* The second half of resolve1662Revised: the fixed holy days.
resolveFixed(fixed, session, day) ==
  IF day.isHolyDay /\ day.holyDayName # Undefined /\ day.collectId \in DOMAIN fixed
    THEN IF session = "morning" /\ "morning" \in DOMAIN fixed[day.collectId]
           THEN primaryReadings(fixed[day.collectId].morning)
         ELSE IF session = "evening" /\ "secondEvensong" \in DOMAIN fixed[day.collectId]
           THEN primaryReadings(fixed[day.collectId].secondEvensong)
         ELSE EmptyReadings
    ELSE EmptyReadings

\* The first half of resolve1662Revised: the regular entry under key.
resolveRegular(data, key, session, day) ==
  IF key \in DOMAIN data.regular /\ session \in DOMAIN data.regular[key]
    THEN primaryReadings(data.regular[key][session])
    ELSE resolveFixed(data.fixed, session, day)

resolve1662Revised(table, session, req) ==
  IF ~table.loaded \/ "litDay" \notin DOMAIN req THEN EmptyReadings
  ELSE resolveRegular(table.data, computeRevisedKey(req.litDay), session, req.litDay)

isLeapYear(year) == (year % 4 = 0 /\ year % 100 # 0) \/ year % 400 = 0

\* doy of resolveMcheyne when no planDay is given, before the clamp.
mcheyneDayOfYear(zone, d) ==
  IF isLeapYear(getFullYear(d)) /\ getMonth(d) = 1 /\ getDate(d) = 29
    THEN dayOfYear(zone, NewDate(getFullYear(d), 1, 28))
  ELSE IF isLeapYear(getFullYear(d)) /\ dayOfYear(zone, d) > 60
    THEN dayOfYear(zone, d) - 1
  ELSE dayOfYear(zone, d)

\* doy of resolveMcheyne after Math.min(doy, 365).
mcheyneDoy(zone, req) ==
  IF "planDay" \in DOMAIN req
    THEN IF req.planDay < 365 THEN req.planDay ELSE 365
  ELSE IF mcheyneDayOfYear(zone, req.date) < 365
    THEN mcheyneDayOfYear(zone, req.date)
  ELSE 365

\* table.find(d => d.day === day): the index of the first such entry, 0 if
\* there is none.
findDay(data, day) ==
  IF \E i \in DOMAIN data : data[i].day = day
    THEN CHOOSE i \in DOMAIN data :
           /\ data[i].day = day
           /\ \A j \in DOMAIN data : data[j].day = day => i <= j
    ELSE 0

firstTwo(sessionReadings) ==
  [first |-> IF Len(sessionReadings) > 0 THEN <<sessionReadings[1]>> ELSE <<>>,
   second |-> IF Len(sessionReadings) > 1 THEN <<sessionReadings[2]>> ELSE <<>>]

mcheyneEntry(data, index, session) ==
  IF index = 0 THEN EmptyReadings
  ELSE IF session = "morning" THEN firstTwo(data[index].morning)
  ELSE firstTwo(data[index].evening)

resolveMcheyne(table, zone, session, req) ==
  IF ~table.loaded THEN EmptyReadings
  ELSE mcheyneEntry(table.data, findDay(table.data, mcheyneDoy(zone, req)), session)

bibleProjectEntry(data, index) ==
  IF index = 0 THEN EmptyReadings
  ELSE [first |-> data[index].reading, second |-> <<data[index].psalm>>]

resolveBibleProject(table, req) ==
  IF ~table.loaded \/ "planDay" \notin DOMAIN req THEN EmptyReadings
  ELSE bibleProjectEntry(table.data, findDay(table.data, req.planDay))

\* resolveReadings once `await loadLectionary(planId)` has returned.
resolveReadings(zone, tabs, req) ==
  IF req.planId = "1662-original"
    THEN resolve1662Original(tabs[req.planId], req.date, req.session)
  ELSE IF req.planId = "1662-revised"
    THEN resolve1662Revised(tabs[req.planId], req.session, req)
  ELSE IF req.planId = "mcheyne"
    THEN resolveMcheyne(tabs[req.planId], zone, req.session, req)
  ELSE IF req.planId = "bibleproject"
    THEN resolveBibleProject(tabs[req.planId], req)
  ELSE Undefined

\* ------------------------------------------------------------------------
\* Lectionary tables and resolveReadings calls
\* ------------------------------------------------------------------------

ResolveYears == 1
MaxPlanDay == 367

ResolveDates == NewDate(MinYear, 0, 1)..(NewDate(MinYear + ResolveYears, 0, 1) - 1)
PlanDays == -1..MaxPlanDay

\* The 366 month-day pairs of the civil calendar, months counted from 1.
MonthDays ==
  {md \in (1..12) \X (1..31) :
     md[2] <= <<31, 29, 31, 30, 31, 30, 31, 31, 30, 31, 30, 31>>[md[1]]}

originalEntry(key) ==
  [morning |-> [first |-> <<key \o " morning first">>,
                second |-> <<key \o " morning second">>],
   evening |-> [first |-> <<key \o " evening first">>,
                second |-> <<key \o " evening second">>]]

PaddedKeys == {padStart2(md[1]) \o "-" \o padStart2(md[2]) : md \in MonthDays}
UnpaddedKeys == {ToString(md[1]) \o "-" \o ToString(md[2]) : md \in MonthDays}

\* A complete table, one without 29 February and one keyed without padding.
OriginalTables ==
  { [k \in PaddedKeys |-> originalEntry(k)],
    [k \in PaddedKeys \ {"02-29"} |-> originalEntry(k)],
    [k \in UnpaddedKeys |-> originalEntry(k)] }

lesson(label) ==
  [primary |-> <<label>>, alternative |-> <<label \o " (alternative)">>]

office(label) ==
  [first |-> lesson(label \o " first"), second |-> lesson(label \o " second")]

regularEntry(key) ==
  [dayLabel |-> key,
   morning |-> office(key \o " morning"),
   evening |-> office(key \o " evening")]

regularMorningOnly(key) ==
  [dayLabel |-> key, morning |-> office(key \o " morning")]

regularFirstLessonOnly(key) ==
  [morning |-> [first |-> lesson(key \o " morning first")],
   evening |-> [first |-> [alternative |-> <<key \o " evening first (alternative)">>]]]

fixedEntry(id) ==
  [dayLabel |-> id,
   firstEvensong |-> office(id \o " first evensong"),
   morning |-> office(id \o " mattins"),
   secondEvensong |-> office(id \o " second evensong")]

fixedEvensongsOnly(id) ==
  [firstEvensong |-> office(id \o " first evensong"),
   secondEvensong |-> office(id \o " second evensong")]

SundayKeys ==
  {revisedPrefix(s, w) : s \in DOMAIN seasonNames, w \in 0..27} \cup
  {specialKeys[n] : n \in DOMAIN specialKeys}
WeekdayKeys ==
  {revisedPrefix(s, w) \o "-" \o DAY_NAMES[i] : s \in DOMAIN seasonNames, w \in 0..27, i \in 2..7}
CollectIds ==
  {FIXED_HOLY_DAYS[i].collectId : i \in DOMAIN FIXED_HOLY_DAYS} \cup
  {"easter-day", "ascension-day", "whitsunday", "trinity-sunday",
   "ash-wednesday", "good-friday", "palm-sunday"}

\* A complete table, one with regular entries for Sundays and named days
\* only, one whose regular entries have no evening, and one whose regular
\* entries have a first lesson only and whose fixed entries have no
\* morning.
RevisedTables ==
  { [regular |-> [k \in SundayKeys \cup WeekdayKeys |-> regularEntry(k)],
     fixed |-> [c \in CollectIds |-> fixedEntry(c)]],
    [regular |-> [k \in SundayKeys |-> regularEntry(k)],
     fixed |-> [c \in CollectIds |-> fixedEntry(c)]],
    [regular |-> [k \in SundayKeys \cup WeekdayKeys |-> regularMorningOnly(k)],
     fixed |-> [c \in CollectIds |-> fixedEntry(c)]],
    [regular |-> [k \in WeekdayKeys |-> regularFirstLessonOnly(k)],
     fixed |-> [c \in CollectIds |-> fixedEvensongsOnly(c)]] }

mcheyneReadings(day, session) ==
  <<"day " \o ToString(day) \o " " \o session \o " 1",
    "day " \o ToString(day) \o " " \o session \o " 2">>

\* The 365-day table, and a table that stops at day 300 and has one reading
\* in the morning and none in the evening.
McheyneTables ==
  { [i \in 1..365 |-> [day |-> i,
                       morning |-> mcheyneReadings(i, "morning"),
                       evening |-> mcheyneReadings(i, "evening")]],
    [i \in 1..300 |-> [day |-> i,
                       morning |-> <<"day " \o ToString(i) \o " morning 1">>,
                       evening |-> <<>>]] }

\* The 358-day table and a table of its first week.
BibleProjectTables ==
  { [i \in 1..n |-> [day |-> i,
                     section |-> "section",
                     reading |-> <<"day " \o ToString(i) \o " reading">>,
                     psalm |-> "day " \o ToString(i) \o " psalm"]] : n \in {358, 7} }

CandidateTables(planId) ==
  IF planId = "1662-original" THEN OriginalTables
  ELSE IF planId = "1662-revised" THEN RevisedTables
  ELSE IF planId = "mcheyne" THEN McheyneTables
  ELSE BibleProjectTables

\* The tables once loadLectionary(planId) has loaded its table.
LoadedTables(planId) ==
  {[q \in Plans |-> IF q = planId THEN Loaded(t) ELSE NotLoaded] :
     t \in CandidateTables(planId)}

\* The calls of resolveReadings(date, session, planId, litDay, planDay):
\* litDay and planDay are optional, the plans pass the litDay that
\* resolveLiturgicalDay gave for date.
Requests(planId) ==
  IF planId = "1662-revised"
    THEN {[date |-> d, session |-> s, planId |-> planId,
           litDay |-> resolveLiturgicalDay(d)] : d \in ResolveDates, s \in Sessions}
         \cup
         {[date |-> NewDate(MinYear, 0, 1), session |-> s, planId |-> planId] :
            s \in Sessions}
  ELSE IF planId = "1662-original"
    THEN {[date |-> d, session |-> s, planId |-> planId] :
            d \in ResolveDates, s \in Sessions}
  ELSE {[date |-> d, session |-> s, planId |-> planId] :
          d \in ResolveDates, s \in Sessions}
       \cup
       {[date |-> NewDate(MinYear, 0, 1), session |-> s, planId |-> planId,
         planDay |-> n] : s \in Sessions, n \in PlanDays}

NoRequest == [planId |-> "none"]
NoReadings == [pending |-> TRUE]

IdleResolve ==
  /\ tz = "UTC"
  /\ tables = [q \in Plans |-> NotLoaded]
  /\ request = NoRequest
  /\ readings = NoReadings

\* ------------------------------------------------------------------------
\* utils/date.ts and utils/plan-day.ts: dates as 'YYYY-MM-DD' strings
\* ------------------------------------------------------------------------

MaxTotalDays == 4
StartYears == 1

\* Format a Date as 'YYYY-MM-DD' using the local timezone.
formatDateStr(d) ==
  ToString(getFullYear(d)) \o "-" \o padStart2(getMonth(d) + 1) \o "-" \o
  padStart2(getDate(d))

DigitValue(c) == CHOOSE v \in 0..9 : ToString(v) = c

RECURSIVE ParseDigits(_)
ParseDigits(str) ==
  IF Len(str) = 0 THEN 0
  ELSE 10 * ParseDigits(SubSeq(str, 1, Len(str) - 1))
         + DigitValue(SubSeq(str, Len(str), Len(str)))

\* new Date(dateStr + 'T00:00:00'): the local midnight of the date written
\* in the string.
parseLocal(dateStr) ==
  NewDate(ParseDigits(SubSeq(dateStr, 1, 4)),
          ParseDigits(SubSeq(dateStr, 6, 7)) - 1,
          ParseDigits(SubSeq(dateStr, 9, 10)))

\* d.setDate(d.getDate() + n)
setDate(d, n) == NewDate(getFullYear(d), getMonth(d), n)

\* addDays of utils/date.ts (easter.ts has its own addDays on Date values,
\* modelled above under the source's name).
date_addDays(dateStr, n) ==
  formatDateStr(setDate(parseLocal(dateStr), getDate(parseLocal(dateStr)) + n))

\* Math.round(x / 86400000), x counted in hours.
roundDays(hours) == (2 * hours + HoursPerDay) \div (2 * HoursPerDay)

\* daysBetween of utils/date.ts.
date_daysBetween(zone, a, b) ==
  roundDays(getTime(zone, parseLocal(b)) - getTime(zone, parseLocal(a)))

\* computePlanDay returning the offset from the start date, counted from 0.
computePlanDayFromZero(zone, startDate, currentDate, totalDays) ==
  IF date_daysBetween(zone, startDate, currentDate) < 1 THEN Null
  ELSE IF date_daysBetween(zone, startDate, currentDate) > totalDays THEN Null
  ELSE date_daysBetween(zone, startDate, currentDate)

computePlanDay(zone, startDate, currentDate, totalDays) ==
  IF date_daysBetween(zone, startDate, currentDate) + 1 < 1 THEN Null
  ELSE IF date_daysBetween(zone, startDate, currentDate) + 1 > totalDays THEN Null
  ELSE date_daysBetween(zone, startDate, currentDate) + 1

\* isPlanComplete with the last plan day counted as past the plan
isPlanCompleteOnLastDay(zone, startDate, currentDate, totalDays) ==
  date_daysBetween(zone, startDate, currentDate) + 1 >= totalDays

isPlanComplete(zone, startDate, currentDate, totalDays) ==
  date_daysBetween(zone, startDate, currentDate) + 1 > totalDays

isDateInPlanRange(zone, startDate, dateStr, totalDays) ==
  /\ date_daysBetween(zone, startDate, dateStr) + 1 >= 1
  /\ date_daysBetween(zone, startDate, dateStr) + 1 <= totalDays

StartDates == NewDate(MinYear, 0, 1)..(NewDate(MinYear + StartYears, 0, 1) - 1)

NoAnchor ==
  [pc |-> "none", startDate |-> "", totalDays |-> 0, currentDate |-> "",
   day |-> Null, planDay |-> Null, rederived |-> ""]

IdlePlan == anchor = NoAnchor

\* ------------------------------------------------------------------------
\* hooks/useOffice.ts: the office of the inputs, assembled asynchronously
\* ------------------------------------------------------------------------

\* An effect is one run of the useEffect body; it owns one assembleOffice
\* call and one cancelled flag.
MaxEffects == 3
EffectIds == 1..MaxEffects

\* The dependency list [date.toISOString(), session, planId, translation,
\* planStartDate]; the date and the session vary.
OfficeInputs ==
  [date : {"2026-04-05", "2026-04-06"}, session : {"morning", "evening"},
   planId : {"1662-original"}]

\* What assembleOffice resolves with for these inputs.
DailyPlan(inputs) ==
  [date |-> inputs.date, planId |-> inputs.planId,
   sessions |-> <<inputs.planId \o "-" \o inputs.session>>]

\* What assembleOffice can settle with: a plan, an Error, or a thrown value
\* that is not an Error.
OfficeOutcomes(inputs) ==
  {[kind |-> "resolved", value |-> DailyPlan(inputs)],
   [kind |-> "rejected", isError |-> TRUE, message |-> "Failed to fetch " \o inputs.date],
   [kind |-> "rejected", isError |-> FALSE]}

NoOutcome == [kind |-> "none"]
NoEffect == [pc |-> "idle", cancelled |-> FALSE, outcome |-> NoOutcome]
NoInputs == [date |-> "none"]
NoPlan == [date |-> "null"]
NoError == [isNull |-> TRUE]

\* useState(null), useState(true), useState(null); no effect has run.
InitialOffice ==
  [inputs |-> NoInputs, effect |-> Null, plan |-> NoPlan, loading |-> TRUE,
   error |-> NoError]

IdleOffice ==
  /\ officeHook = InitialOffice
  /\ officeCalls = [e \in EffectIds |-> NoEffect]

\* return () => { cancelled = true; }
cleanup(effects, e) ==
  IF e = Null THEN effects ELSE [effects EXCEPT ![e].cancelled = TRUE]

\* .then(result => { if (!cancelled) { setPlan(result); setLoading(false); } })
\* with the test of cancelled left out
thenCallbackUnguarded(state, effect, result) ==
  [state EXCEPT !.plan = result, !.loading = FALSE]

\* .then(result => { if (!cancelled) { setPlan(result); setLoading(false); } })
thenCallback(state, effect, result) ==
  IF ~effect.cancelled
  THEN [state EXCEPT !.plan = result, !.loading = FALSE]
  ELSE state

\* .catch(err => { if (!cancelled) { setError(...); setLoading(false); } })
catchCallback(state, effect, err) ==
  IF ~effect.cancelled
  THEN [state EXCEPT
          !.error = [isNull |-> FALSE,
                     message |-> IF err.isError THEN err.message
                                 ELSE "Failed to load office"],
          !.loading = FALSE]
  ELSE state

\* The component renders with inputs that differ from those of the last
\* effect (or for the first time): the cleanup of the last effect runs, then
\* the effect body: cancelled = false, setLoading(true), setError(null),
\* and assembleOffice is called.
RunOfficeEffect(e, inputs) ==
  /\ officeCalls[e].pc = "idle"
  /\ \A x \in EffectIds : x < e => officeCalls[x].pc # "idle"
  /\ inputs # officeHook.inputs
  /\ officeCalls' = [cleanup(officeCalls, officeHook.effect) EXCEPT
                       ![e] = [pc |-> "pending", cancelled |-> FALSE,
                               inputs |-> inputs, outcome |-> NoOutcome]]
  /\ officeHook' = [officeHook EXCEPT !.inputs = inputs, !.effect = e,
                                      !.loading = TRUE, !.error = NoError]
  /\ UNCHANGED calVars
  /\ UNCHANGED loadVars
  /\ UNCHANGED resolveVars
  /\ UNCHANGED planVars
  /\ UNCHANGED completionVars

\* The assembleOffice call of effect e settles and its callback runs.
OfficeSettles(e, outcome) ==
  /\ officeCalls[e].pc = "pending"
  /\ officeCalls' = [officeCalls EXCEPT ![e].pc = "settled", ![e].outcome = outcome]
  /\ officeHook' = IF outcome.kind = "resolved"
                   THEN thenCallback(officeHook, officeCalls[e], outcome.value)
                   ELSE catchCallback(officeHook, officeCalls[e], outcome)
  /\ UNCHANGED calVars
  /\ UNCHANGED loadVars
  /\ UNCHANGED resolveVars
  /\ UNCHANGED planVars
  /\ UNCHANGED completionVars

\* ------------------------------------------------------------------------
\* hooks/useCompletion.ts and db/schema.ts: the completed sections of a
\* (date, session, planId) and the completions table
\* ------------------------------------------------------------------------

MaxLoads == 2
MaxToggles == 2
MaxPersists == 2
LoadIds == 1..MaxLoads
PersistIds == 1..MaxPersists

\* The key (date, session, planId) of the hook.
CompletionKeys ==
  [date : {"2026-04-05", "2026-04-06"}, session : {"morning"},
   planId : {"1662-original"}]

\* totalSections, the ids of the checkable sections.
SectionIds == {"psalms", "first-lesson"}

NoKey == [date |-> "none"]
NoRecord == [id |-> Null]
NoTimer == [set |-> FALSE]
NoLoad == [pc |-> "idle"]
NoPersist == [pc |-> "idle"]

\* completions: '++id, [date+session+planId], date'. The table is the
\* sequence of its records by id; the compound index is not unique.
\* completedAt, the time of the write, is not read by the hook and is left out.
CompletionRecord(id, key, sections) ==
  [id |-> id, key |-> key, sectionsCompleted |-> sections]

\* db.completions.where({ date, session, planId }).first()
where_first(table, key) ==
  IF \E i \in 1..Len(table) : table[i].key = key
  THEN table[CHOOSE i \in 1..Len(table) :
               /\ table[i].key = key
               /\ \A j \in 1..(i - 1) : table[j].key # key]
  ELSE NoRecord

\* db.completions.update(id, { sectionsCompleted: sections, ... })
update(table, id, sections) ==
  [i \in 1..Len(table) |->
     IF table[i].id = id THEN [table[i] EXCEPT !.sectionsCompleted = sections]
     ELSE table[i]]

\* db.completions.add({ date, session, planId, completedAt, sectionsCompleted })
add(table, key, sections) ==
  Append(table, CompletionRecord(Len(table) + 1, key, sections))

\* The updater of toggleSection.
toggle(prev, sectionId) ==
  IF sectionId \in prev THEN prev \ {sectionId} ELSE prev \cup {sectionId}

\* The persist effect after a render: its last timer is cleared, and a timer
\* is set for the sections and the key of the render when loadedRef is set.
persistEffect(loadedRef, sections, key) ==
  IF loadedRef THEN [set |-> TRUE, sections |-> sections, key |-> key]
  ELSE NoTimer

\* useState(new Set()), useState(null), useRef(false); not mounted.
InitialCompletion ==
  [key |-> NoKey, completedSections |-> {}, record |-> NoRecord,
   loadedRef |-> FALSE, timer |-> NoTimer, toggles |-> 0, own |-> {}]

\* What the table can hold when the app starts.
StoredCompletions ==
  {<<>>} \cup
  {<<CompletionRecord(1, key, {s})>> : key \in CompletionKeys, s \in SectionIds}

\* The (key, section) pairs of the records of a table.
SectionsByKey(table) ==
  {pair \in CompletionKeys \X SectionIds :
     \E i \in 1..Len(table) :
       table[i].key = pair[1] /\ pair[2] \in table[i].sectionsCompleted}

IdleCompletion ==
  /\ completion = InitialCompletion
  /\ completions = <<>>
  /\ loads = [l \in LoadIds |-> NoLoad]
  /\ persists = [p \in PersistIds |-> NoPersist]

\* The hook renders with a key that differs from that of the last render (or
\* for the first time).  The load effect runs: loadedRef.current = false and
\* the query is issued.  The persist effect runs after it, clears its timer
\* and returns because loadedRef is not set.
RunLoadEffect(l, key) ==
  /\ loads[l].pc = "idle"
  /\ \A x \in LoadIds : x < l => loads[x].pc # "idle"
  /\ key # completion.key
  /\ loads' = [loads EXCEPT ![l] = [pc |-> "querying", key |-> key]]
  /\ completion' = [completion EXCEPT
                      !.key = key,
                      !.loadedRef = FALSE,
                      !.timer = persistEffect(FALSE, completion.completedSections, key)]
  /\ UNCHANGED <<completions, persists>>
  /\ UNCHANGED calVars
  /\ UNCHANGED loadVars
  /\ UNCHANGED resolveVars
  /\ UNCHANGED planVars
  /\ UNCHANGED officeVars

\* existing = await db.completions.where({ date, session, planId }).first():
\* the query of load l reads the table.
LoadQueries(l) ==
  /\ loads[l].pc = "querying"
  /\ loads' = [loads EXCEPT ![l] = [pc |-> "queried", key |-> loads[l].key,
                                    existing |-> where_first(completions,
                                                             loads[l].key)]]
  /\ UNCHANGED <<completion, completions, persists>>
  /\ UNCHANGED calVars
  /\ UNCHANGED loadVars
  /\ UNCHANGED resolveVars
  /\ UNCHANGED planVars
  /\ UNCHANGED officeVars

\* The async function of load l resumes: setCompletedSections, setRecord,
\* loadedRef.current = true.  The set is a new object, so the hook renders
\* and the persist effect runs with the key of that render.
LoadResumes(l) ==
  /\ loads[l].pc = "queried"
  /\ loads' = [loads EXCEPT ![l].pc = "done"]
  /\ completion' = [completion EXCEPT
                      !.completedSections =
                         IF loads[l].existing # NoRecord
                         THEN loads[l].existing.sectionsCompleted ELSE {},
                      !.record = loads[l].existing,
                      !.loadedRef = TRUE,
                      !.timer = persistEffect(TRUE,
                                  IF loads[l].existing # NoRecord
                                  THEN loads[l].existing.sectionsCompleted ELSE {},
                                  completion.key)]
  /\ UNCHANGED <<completions, persists>>
  /\ UNCHANGED calVars
  /\ UNCHANGED loadVars
  /\ UNCHANGED resolveVars
  /\ UNCHANGED planVars
  /\ UNCHANGED officeVars

\* toggleSection(sectionId), the render and the persist effect after it.
\* own remembers the sections stored or toggled under each key.
ToggleSection(sectionId) ==
  /\ completion.key # NoKey
  /\ completion.toggles < MaxToggles
  /\ completion' = [completion EXCEPT
                      !.completedSections = toggle(completion.completedSections, sectionId),
                      !.timer = persistEffect(completion.loadedRef,
                                  toggle(completion.completedSections, sectionId),
                                  completion.key),
                      !.toggles = completion.toggles + 1,
                      !.own = completion.own \cup {<<completion.key, sectionId>>}]
  /\ UNCHANGED <<completions, loads, persists>>
  /\ UNCHANGED calVars
  /\ UNCHANGED loadVars
  /\ UNCHANGED resolveVars
  /\ UNCHANGED planVars
  /\ UNCHANGED officeVars

\* markSessionComplete(), the render and the persist effect after it.
MarkSessionComplete ==
  /\ completion.key # NoKey
  /\ completion.toggles < MaxToggles
  /\ completion' = [completion EXCEPT
                      !.completedSections = SectionIds,
                      !.timer = persistEffect(completion.loadedRef, SectionIds,
                                              completion.key),
                      !.toggles = completion.toggles + 1,
                      !.own = completion.own \cup
                                {<<completion.key, s>> : s \in SectionIds}]
  /\ UNCHANGED <<completions, loads, persists>>
  /\ UNCHANGED calVars
  /\ UNCHANGED loadVars
  /\ UNCHANGED resolveVars
  /\ UNCHANGED planVars
  /\ UNCHANGED officeVars

\* The timer fires after 100 ms: the callback starts and issues its query.
TimerFires(p) ==
  /\ completion.timer # NoTimer
  /\ persists[p].pc = "idle"
  /\ \A x \in PersistIds : x < p => persists[x].pc # "idle"
  /\ persists' = [persists EXCEPT ![p] = [pc |-> "querying",
                                          key |-> completion.timer.key,
                                          sections |-> completion.timer.sections]]
  /\ completion' = [completion EXCEPT !.timer = NoTimer]
  /\ UNCHANGED <<completions, loads>>
  /\ UNCHANGED calVars
  /\ UNCHANGED loadVars
  /\ UNCHANGED resolveVars
  /\ UNCHANGED planVars
  /\ UNCHANGED officeVars

\* existing = await db.completions.where({ date, session, planId }).first():
\* the query of callback p reads the table.
PersistQueries(p) ==
  /\ persists[p].pc = "querying"
  /\ persists' = [persists EXCEPT ![p] = [pc |-> "queried",
                                          key |-> persists[p].key,
                                          sections |-> persists[p].sections,
                                          existing |-> where_first(completions,
                                                                   persists[p].key)]]
  /\ UNCHANGED <<completion, completions, loads>>
  /\ UNCHANGED calVars
  /\ UNCHANGED loadVars
  /\ UNCHANGED resolveVars
  /\ UNCHANGED planVars
  /\ UNCHANGED officeVars

\* Callback p resumes: update of the record found, or add when none was found
\* and there are sections, or nothing.
PersistWrites(p) ==
  /\ persists[p].pc = "queried"
  /\ persists' = [persists EXCEPT ![p].pc = "done"]
  /\ completions' =
       IF persists[p].existing # NoRecord
       THEN update(completions, persists[p].existing.id, persists[p].sections)
       ELSE IF persists[p].sections # {}
       THEN add(completions, persists[p].key, persists[p].sections)
       ELSE completions
  /\ UNCHANGED <<completion, loads>>
  /\ UNCHANGED calVars
  /\ UNCHANGED loadVars
  /\ UNCHANGED resolveVars
  /\ UNCHANGED planVars
  /\ UNCHANGED officeVars

\* ------------------------------------------------------------------------
\* The calendar engine applied to the days of MinYear..MaxYear
\* ------------------------------------------------------------------------

NoFeasts ==
  [k \in {"septuagesima", "sexagesima", "quinquagesima", "ashWednesday",
          "palmSunday", "goodFriday", "easterDay", "easterMonday",
          "ascensionDay", "whitsunday", "whitMonday", "trinitySunday",
          "adventSunday", "christmasDay", "epiphany"} |-> -1]
NoDay == [date |-> -1, season |-> "none", weekOfSeason |-> -1, dayOfWeek |-> -1,
          name |-> Undefined, isHolyDay |-> FALSE, holyDayName |-> Undefined,
          holyDayRank |-> Undefined, collectId |-> Undefined, isSunday |-> FALSE,
          psalmsDay |-> -1]

Years == MinYear..MaxYear

InitCalendar ==
  /\ \E y \in Years : date = NewDate(y, 0, 1)
  /\ calpc = "date"
  /\ feasts = NoFeasts
  /\ branch = -1
  /\ prevBranch = -1
  /\ litDay = NoDay
  /\ psalms = NoPsalms
  /\ InitTables
  /\ IdleResolve
  /\ IdlePlan
  /\ IdleOffice
  /\ IdleCompletion

\* feasts = computeMoveableFeasts(date.getFullYear())
ComputeFeasts ==
  /\ calpc = "date"
  /\ feasts' = computeMoveableFeasts(getFullYear(date))
  /\ calpc' = "feasts"
  /\ UNCHANGED <<date, branch, prevBranch, litDay, psalms>>
  /\ UNCHANGED loadVars
  /\ UNCHANGED resolveVars
  /\ UNCHANGED planVars
  /\ UNCHANGED officeVars
  /\ UNCHANGED completionVars

\* determineSeason(date, feasts)
DetermineSeason ==
  /\ calpc = "feasts"
  /\ branch' = determineSeasonBranch(date, feasts)
  /\ calpc' = "season"
  /\ UNCHANGED <<date, feasts, prevBranch, litDay, psalms>>
  /\ UNCHANGED loadVars
  /\ UNCHANGED resolveVars
  /\ UNCHANGED planVars
  /\ UNCHANGED officeVars
  /\ UNCHANGED completionVars

\* buildPsalms(date, session, litDay, translation)
BuildPsalms(session) ==
  /\ calpc = "resolved"
  /\ psalms = NoPsalms
  /\ psalms' = buildPsalms(date, session, getPsalmsForDay(date, session), litDay.psalmsDay)
  /\ UNCHANGED <<date, calpc, feasts, branch, prevBranch, litDay>>
  /\ UNCHANGED loadVars
  /\ UNCHANGED resolveVars
  /\ UNCHANGED planVars
  /\ UNCHANGED officeVars
  /\ UNCHANGED completionVars

\* resolveLiturgicalDay(date)
ResolveLiturgicalDay ==
  /\ calpc = "season"
  /\ litDay' = resolveLiturgicalDay(date)
  /\ calpc' = "resolved"
  /\ UNCHANGED <<date, feasts, branch, prevBranch, psalms>>
  /\ UNCHANGED loadVars
  /\ UNCHANGED resolveVars
  /\ UNCHANGED planVars
  /\ UNCHANGED officeVars
  /\ UNCHANGED completionVars

\* The caller moves on to the next day.
NextDay ==
  /\ calpc = "resolved"
  /\ getFullYear(date + 1) <= MaxYear
  /\ date' = date + 1
  /\ prevBranch' = branch
  /\ calpc' = "date"
  /\ feasts' = NoFeasts
  /\ branch' = -1
  /\ litDay' = NoDay
  /\ psalms' = NoPsalms
  /\ UNCHANGED loadVars
  /\ UNCHANGED resolveVars
  /\ UNCHANGED planVars
  /\ UNCHANGED officeVars
  /\ UNCHANGED completionVars

NextCalendar ==
  \/ ComputeFeasts
  \/ DetermineSeason
  \/ ResolveLiturgicalDay
  \/ \E session \in Sessions : BuildPsalms(session)
  \/ NextDay

SpecCalendar == InitCalendar /\ [][NextCalendar]_vars

\* ------------------------------------------------------------------------
\* Concurrent resolveReadings calls
\* ------------------------------------------------------------------------

InitLoader ==
  /\ date = NewDate(MinYear, 0, 1)
  /\ calpc = "date"
  /\ feasts = NoFeasts
  /\ branch = -1
  /\ prevBranch = -1
  /\ litDay = NoDay
  /\ psalms = NoPsalms
  /\ InitTables
  /\ IdleResolve
  /\ IdlePlan
  /\ IdleOffice
  /\ IdleCompletion

NextLoader ==
  \/ \E c \in CallIds, p \in PlanIds, e \in BOOLEAN : StartResolve(c, p, e)
  \/ \E c \in CallIds : FetchResolves(c)
  \/ \E c \in CallIds : LoadRejects(c)
  \/ \E c \in CallIds : JsonResolves(c)
  \/ \E c \in CallIds : FinishResolve(c)

SpecLoader == InitLoader /\ [][NextLoader]_vars

\* ------------------------------------------------------------------------
\* resolveReadings on loaded tables
\* ------------------------------------------------------------------------

InitResolve ==
  /\ date = NewDate(MinYear, 0, 1)
  /\ calpc = "date"
  /\ feasts = NoFeasts
  /\ branch = -1
  /\ prevBranch = -1
  /\ litDay = NoDay
  /\ psalms = NoPsalms
  /\ InitTables
  /\ IdlePlan
  /\ tz \in TimeZones
  /\ \E planId \in Plans :
       /\ tables \in LoadedTables(planId)
       /\ request \in Requests(planId)
  /\ readings = NoReadings
  /\ IdleOffice
  /\ IdleCompletion

\* resolveReadings(date, session, planId, litDay, planDay)
ResolveReadings ==
  /\ request # NoRequest
  /\ readings = NoReadings
  /\ readings' = resolveReadings(tz, tables, request)
  /\ UNCHANGED <<tz, tables, request>>
  /\ UNCHANGED calVars
  /\ UNCHANGED loadVars
  /\ UNCHANGED planVars
  /\ UNCHANGED officeVars
  /\ UNCHANGED completionVars

NextResolve == ResolveReadings

SpecResolve == InitResolve /\ [][NextResolve]_vars

\* ------------------------------------------------------------------------
\* The plan day of a sequential plan with a start date
\* ------------------------------------------------------------------------

InitPlan ==
  /\ date = NewDate(MinYear, 0, 1)
  /\ calpc = "date"
  /\ feasts = NoFeasts
  /\ branch = -1
  /\ prevBranch = -1
  /\ litDay = NoDay
  /\ psalms = NoPsalms
  /\ InitTables
  /\ tz \in TimeZones
  /\ tables = [q \in Plans |-> NotLoaded]
  /\ request = NoRequest
  /\ readings = NoReadings
  /\ \E s \in StartDates, t \in 1..MaxTotalDays :
       anchor = [NoAnchor EXCEPT !.pc = "anchored",
                                 !.startDate = formatDateStr(s),
                                 !.totalDays = t]
  /\ IdleOffice
  /\ IdleCompletion

\* The user opens the office of a date around the plan.
OpenDate(offset) ==
  /\ anchor.pc = "anchored"
  /\ anchor' = [anchor EXCEPT !.pc = "dated",
                  !.currentDate = formatDateStr(parseLocal(anchor.startDate) + offset)]
  /\ UNCHANGED <<tz, tables, request, readings>>
  /\ UNCHANGED calVars
  /\ UNCHANGED loadVars
  /\ UNCHANGED officeVars
  /\ UNCHANGED completionVars

\* The date of plan day n is taken with addDays(startDate, n - 1).
OpenPlanDay(n) ==
  /\ anchor.pc = "anchored"
  /\ anchor' = [anchor EXCEPT !.pc = "dated",
                  !.day = n,
                  !.currentDate = date_addDays(anchor.startDate, n - 1)]
  /\ UNCHANGED <<tz, tables, request, readings>>
  /\ UNCHANGED calVars
  /\ UNCHANGED loadVars
  /\ UNCHANGED officeVars
  /\ UNCHANGED completionVars

\* planDay = computePlanDay(planStartDate, dateStr, totalDays)
ComputePlanDay ==
  /\ anchor.pc = "dated"
  /\ anchor' = [anchor EXCEPT !.pc = "computed",
                  !.planDay = computePlanDay(tz, anchor.startDate, anchor.currentDate,
                                             anchor.totalDays)]
  /\ UNCHANGED <<tz, tables, request, readings>>
  /\ UNCHANGED calVars
  /\ UNCHANGED loadVars
  /\ UNCHANGED officeVars
  /\ UNCHANGED completionVars

\* The date is derived again from the start date and the plan day.
RederiveDate ==
  /\ anchor.pc = "computed"
  /\ anchor.planDay # Null
  /\ anchor' = [anchor EXCEPT !.pc = "rederived",
                  !.rederived = date_addDays(anchor.startDate, anchor.planDay - 1)]
  /\ UNCHANGED <<tz, tables, request, readings>>
  /\ UNCHANGED calVars
  /\ UNCHANGED loadVars
  /\ UNCHANGED officeVars
  /\ UNCHANGED completionVars

NextPlan ==
  \/ \E offset \in -2..(anchor.totalDays + 1) : OpenDate(offset)
  \/ \E n \in 1..anchor.totalDays : OpenPlanDay(n)
  \/ ComputePlanDay
  \/ RederiveDate

SpecPlan == InitPlan /\ [][NextPlan]_vars

\* ------------------------------------------------------------------------
\* useOffice under changing inputs
\* ------------------------------------------------------------------------

InitOffice ==
  /\ date = NewDate(MinYear, 0, 1)
  /\ calpc = "date"
  /\ feasts = NoFeasts
  /\ branch = -1
  /\ prevBranch = -1
  /\ litDay = NoDay
  /\ psalms = NoPsalms
  /\ InitTables
  /\ IdleResolve
  /\ IdlePlan
  /\ IdleOffice
  /\ IdleCompletion

NextOffice ==
  \/ \E e \in EffectIds, inputs \in OfficeInputs : RunOfficeEffect(e, inputs)
  \/ \E e \in EffectIds :
       /\ officeCalls[e].pc = "pending"
       /\ \E outcome \in OfficeOutcomes(officeCalls[e].inputs) :
            OfficeSettles(e, outcome)

SpecOffice == InitOffice /\ [][NextOffice]_vars

\* ------------------------------------------------------------------------
\* useCompletion under key changes, toggles and persist callbacks
\* ------------------------------------------------------------------------

InitCompletion ==
  /\ date = NewDate(MinYear, 0, 1)
  /\ calpc = "date"
  /\ feasts = NoFeasts
  /\ branch = -1
  /\ prevBranch = -1
  /\ litDay = NoDay
  /\ psalms = NoPsalms
  /\ InitTables
  /\ IdleResolve
  /\ IdlePlan
  /\ IdleOffice
  /\ completions \in StoredCompletions
  /\ completion = [InitialCompletion EXCEPT !.own = SectionsByKey(completions)]
  /\ loads = [l \in LoadIds |-> NoLoad]
  /\ persists = [p \in PersistIds |-> NoPersist]

NextCompletion ==
  \/ \E l \in LoadIds, key \in CompletionKeys : RunLoadEffect(l, key)
  \/ \E l \in LoadIds : LoadQueries(l)
  \/ \E l \in LoadIds : LoadResumes(l)
  \/ \E sectionId \in SectionIds : ToggleSection(sectionId)
  \/ MarkSessionComplete
  \/ \E p \in PersistIds : TimerFires(p)
  \/ \E p \in PersistIds : PersistQueries(p)
  \/ \E p \in PersistIds : PersistWrites(p)

SpecCompletion == InitCompletion /\ [][NextCompletion]_vars

\* ------------------------------------------------------------------------
\* Properties of the season resolver
\* ------------------------------------------------------------------------

\* The ranges of SeasonRanges in the order of the civil year.
BlockOrder == <<10, 11, 3, 2, 1, 4, 5, 6, 7, 8, 9>>

BlockSeasons ==
  <<"christmas", "epiphany", "pre-lent", "lent", "holy-week", "easter",
    "ascension", "whitsun", "trinity", "advent", "christmas">>

\* The position in the year of the range a return statement belongs to,
\* 0 for the fallback return.
Block(b) ==
  IF b \in 1..11 THEN CHOOSE k \in 1..11 : BlockOrder[k] = b ELSE 0

SeasonDone == calpc \in {"season", "resolved"}

\* C1: for every date of a year exactly one range of determineSeason
\* contains it, and day after day the seasons are contiguous blocks in the
\* order christmas (1-5 Jan), epiphany, pre-lent, lent, holy-week, easter,
\* ascension, whitsun, trinity, advent, christmas (25-31 Dec), each block
\* starting the day after the previous one ends.
C1_SeasonsPartitionYear ==
  SeasonDone =>
    LET r == SeasonRanges(date, feasts)
        first == getMonth(date) = 0 /\ getDate(date) = 1
        last == getMonth(date) = 11 /\ getDate(date) = 31
    IN  /\ Cardinality(MatchingRanges(date, feasts)) = 1
        /\ Block(branch) \in 1..11
        /\ r[branch].season = BlockSeasons[Block(branch)]
        /\ first => Block(branch) = 1
        /\ last => Block(branch) = 11
        /\ ~first =>
             \/ /\ branch = prevBranch
                /\ r[branch].start < date
             \/ /\ Block(branch) = Block(prevBranch) + 1
                /\ r[branch].start = date
                /\ r[prevBranch].end = date - 1

\* A walk has crossed from Trinity into Advent.
C1_Witness ==
  /\ calpc = "season"
  /\ branch = 8
  /\ prevBranch = 7
  /\ date = feasts.adventSunday

\* C2: determineSeason never takes its final fallback return.
C2_FallbackUnreachable == SeasonDone => branch # 0

\* The cascade ran down to its last range test, which matched.
C2_Witness == calpc = "season" /\ branch = 11 /\ date = feasts.septuagesima - 1

\* ------------------------------------------------------------------------
\* Properties of the liturgical day resolver
\* ------------------------------------------------------------------------

\* The seven moveable feast days resolveLiturgicalDay checks.
MoveableDays(f) ==
  { <<f.easterDay, "Easter Day", "principal", "easter-day">>,
    <<f.ascensionDay, "Ascension Day", "principal", "ascension-day">>,
    <<f.whitsunday, "Whitsunday", "principal", "whitsunday">>,
    <<f.trinitySunday, "Trinity Sunday", "principal", "trinity-sunday">>,
    <<f.ashWednesday, "Ash Wednesday", "major", "ash-wednesday">>,
    <<f.goodFriday, "Good Friday", "major", "good-friday">>,
    <<f.palmSunday, "Palm Sunday", "major", "palm-sunday">> }

IsMoveableDay(d, f) == \E m \in MoveableDays(f) : m[1] = d

FixedOn(d) ==
  {i \in DOMAIN FIXED_HOLY_DAYS :
     FIXED_HOLY_DAYS[i].month = getMonth(d) /\ FIXED_HOLY_DAYS[i].day = getDate(d)}

HasIdentity(day, name, rank, collectId) ==
  /\ day.name = name
  /\ day.holyDayName = name
  /\ day.holyDayRank = rank
  /\ day.collectId = collectId

\* C6: on one of the seven moveable feast days the name, holy-day name, rank
\* and collect key are the moveable feast's, also when a fixed holy day falls
\* on the same date; otherwise a fixed holy day supplies them unless the date
\* is a Sunday and the fixed day is minor.
C6_MoveableThenFixed ==
  calpc = "resolved" =>
    /\ \A m \in MoveableDays(feasts) :
         m[1] = date => HasIdentity(litDay, m[2], m[3], m[4])
    /\ \A i \in FixedOn(date) :
         /\ ~IsMoveableDay(date, feasts)
         /\ ~(getDay(date) = 0 /\ FIXED_HOLY_DAYS[i].rank = "minor")
         => HasIdentity(litDay, FIXED_HOLY_DAYS[i].name, FIXED_HOLY_DAYS[i].rank,
                        FIXED_HOLY_DAYS[i].collectId)

\* A fixed holy day fell on a moveable feast day (as the Annunciation on
\* Good Friday 2005).
C6_Witness ==
  /\ calpc = "resolved"
  /\ IsMoveableDay(date, feasts)
  /\ FixedOn(date) # {}
  /\ litDay.isHolyDay

\* C7: a Sunday never resolves with rank minor; a minor fixed holy day on a
\* Sunday that is not a moveable feast leaves isHolyDay false, no holy-day
\* name or rank, and the Sunday's own name and collect key.
C7_MinorYieldsToSunday ==
  calpc = "resolved" /\ getDay(date) = 0 =>
    /\ litDay.holyDayRank # "minor"
    /\ \A i \in FixedOn(date) :
         FIXED_HOLY_DAYS[i].rank = "minor" /\ ~IsMoveableDay(date, feasts) =>
           /\ litDay.isHolyDay = FALSE
           /\ litDay.holyDayName = Undefined
           /\ litDay.holyDayRank = Undefined
           /\ litDay.name = formatDayName(litDay.season, litDay.weekOfSeason, 0)
           /\ litDay.collectId =
                litDay.season \o "-" \o ToString(litDay.weekOfSeason)

\* A minor saint's day fell on an ordinary Sunday (as St Mark in 2027).
C7_Witness ==
  /\ calpc = "resolved"
  /\ getDay(date) = 0
  /\ ~IsMoveableDay(date, feasts)
  /\ \E i \in FixedOn(date) : FIXED_HOLY_DAYS[i].rank = "minor"

\* C8: 25 December of every year resolves as the principal holy day
\* Christmas Day in the christmas season, whatever the weekday.
C8_ChristmasDay ==
  calpc = "resolved" /\ getMonth(date) = 11 /\ getDate(date) = 25 =>
    /\ litDay.isHolyDay = TRUE
    /\ litDay.holyDayName = "Christmas Day"
    /\ litDay.holyDayRank = "principal"
    /\ litDay.season = "christmas"

\* Christmas Day resolved on a Sunday.
C8_Witness ==
  /\ calpc = "resolved"
  /\ getMonth(date) = 11
  /\ getDate(date) = 25
  /\ getDay(date) = 0

\* ------------------------------------------------------------------------
\* Properties of the moveable feast calculator
\* ------------------------------------------------------------------------

FeastsDone == calpc \in {"feasts", "season", "resolved"}

\* Easter Day of 2020..2030 as <<month (1-indexed), day>>.
KnownEaster ==
  [y \in 2020..2030 |->
     CASE y = 2020 -> <<4, 12>>
       [] y = 2021 -> <<4, 4>>
       [] y = 2022 -> <<4, 17>>
       [] y = 2023 -> <<4, 9>>
       [] y = 2024 -> <<3, 31>>
       [] y = 2025 -> <<4, 20>>
       [] y = 2026 -> <<4, 5>>
       [] y = 2027 -> <<3, 28>>
       [] y = 2028 -> <<4, 16>>
       [] y = 2029 -> <<4, 1>>
       [] y = 2030 -> <<4, 21>>]

\* C9: Easter Day is a Sunday in March or April of its year, and for
\* 2020..2030 it is the reference date.
C9_EasterSunday ==
  FeastsDone =>
    LET y == getFullYear(date)
        e == feasts.easterDay
    IN  /\ getDay(e) = 0
        /\ getFullYear(e) = y
        /\ getMonth(e) \in {2, 3}
        /\ y \in DOMAIN KnownEaster =>
             <<getMonth(e) + 1, getDate(e)>> = KnownEaster[y]

\* Easter was computed for a year of the reference table.
C9_Witness ==
  /\ calpc = "feasts"
  /\ getFullYear(date) \in DOMAIN KnownEaster
  /\ getMonth(feasts.easterDay) = 2

\* C10: Advent Sunday is a Sunday from 27 November to 3 December and at
\* most 3 days away from 30 November.
C10_AdventSunday ==
  FeastsDone =>
    LET y == getFullYear(date)
        a == feasts.adventSunday
        nov30 == NewDate(y, 10, 30)
    IN  /\ getDay(a) = 0
        /\ a >= NewDate(y, 10, 27)
        /\ a <= NewDate(y, 11, 3)
        /\ a - nov30 \in -3..3

\* 30 November was a Thursday, Advent Sunday three days later.
C10_Witness ==
  /\ calpc = "feasts"
  /\ getMonth(feasts.adventSunday) = 11
  /\ getDate(feasts.adventSunday) = 3

\* The offset in days of each Easter-relative feast from Easter Day.
EasterOffsets ==
  [ septuagesima  |-> -63,
    sexagesima    |-> -56,
    quinquagesima |-> -49,
    ashWednesday  |-> -46,
    palmSunday    |-> -7,
    goodFriday    |-> -2,
    easterDay     |-> 0,
    easterMonday  |-> 1,
    ascensionDay  |-> 39,
    whitsunday    |-> 49,
    whitMonday    |-> 50,
    trinitySunday |-> 56 ]

\* C11: every Easter-relative feast lies at its fixed offset from Easter
\* Day, so Ascension Day is a Thursday, Ash Wednesday a Wednesday and Good
\* Friday a Friday; Advent Sunday is fixed by the weekday of 30 November of
\* the year alone, whatever the date of Easter.
C11_EasterOffsets ==
  FeastsDone =>
    LET nov30 == NewDate(getFullYear(date), 10, 30)
        w == getDay(nov30)
    IN  /\ \A k \in DOMAIN EasterOffsets :
             feasts[k] = feasts.easterDay + EasterOffsets[k]
        /\ getDay(feasts.ascensionDay) = 4
        /\ getDay(feasts.ashWednesday) = 3
        /\ getDay(feasts.goodFriday) = 5
        /\ feasts.adventSunday = nov30 + (IF w <= 3 THEN -w ELSE 7 - w)

\* A leap year whose Ash Wednesday falls in February and whose Easter falls
\* in April: the offsets span 29 February and two month ends.
C11_Witness ==
  /\ calpc = "feasts"
  /\ getMonth(feasts.ashWednesday) = 1
  /\ getMonth(feasts.easterDay) = 3
  /\ getDate(NewDate(getFullYear(date), 1, 29)) = 29
  /\ getMonth(feasts.ascensionDay) = 4

\* The name and the static collect key of every holy day, fixed or moveable.
StaticKeys(f) ==
  {<<m[2], m[4]>> : m \in MoveableDays(f)} \cup
  {<<FIXED_HOLY_DAYS[i].name, FIXED_HOLY_DAYS[i].collectId>> : i \in DOMAIN FIXED_HOLY_DAYS}

\* C20: the collect key is '<season>-<weekOfSeason>' exactly when the day is
\* not a holy day and the static key of the resolved holy day exactly when it
\* is; the day is a holy day exactly when its holy-day name and rank are both
\* set.
C20_CollectIdForm ==
  calpc = "resolved" =>
    LET weekKey == litDay.season \o "-" \o ToString(litDay.weekOfSeason)
        static == <<litDay.holyDayName, litDay.collectId>> \in StaticKeys(feasts)
    IN  /\ litDay.isHolyDay <=> litDay.collectId # weekKey
        /\ litDay.isHolyDay <=> static
        /\ litDay.isHolyDay <=>
             (litDay.holyDayName # Undefined /\ litDay.holyDayRank # Undefined)
        /\ litDay.isHolyDay \/
             (litDay.holyDayName = Undefined /\ litDay.holyDayRank = Undefined)

\* A minor fixed holy day fell on a Sunday: the day was resolved as an
\* ordinary Sunday and keeps the collect key of its week.
C20_Witness ==
  /\ calpc = "resolved"
  /\ FixedOn(date) # {}
  /\ ~IsMoveableDay(date, feasts)
  /\ getDay(date) = 0
  /\ ~litDay.isHolyDay
  /\ litDay.collectId = computeCollectId(litDay.season, litDay.weekOfSeason)

\* C21: in Trinity season the week is the number of whole weeks since
\* Trinity Sunday (Trinity Sunday itself week 0, the Sunday 7N days after it
\* week N); in Advent it is the number of whole weeks since Advent Sunday
\* plus one, and lies in 1..4.
C21_TrinityAdventWeeks ==
  calpc = "resolved" =>
    /\ litDay.season = "trinity" =>
         /\ date >= feasts.trinitySunday
         /\ litDay.weekOfSeason = (date - feasts.trinitySunday) \div 7
         /\ date = feasts.trinitySunday => litDay.weekOfSeason = 0
         /\ getDay(date) = 0 => date = feasts.trinitySunday + 7 * litDay.weekOfSeason
    /\ litDay.season = "advent" =>
         /\ date >= feasts.adventSunday
         /\ litDay.weekOfSeason = ((date - feasts.adventSunday) \div 7) + 1
         /\ litDay.weekOfSeason \in 1..4

\* The Sunday 35 days after Trinity Sunday was resolved in week 5.
C21_Witness ==
  /\ calpc = "resolved"
  /\ litDay.season = "trinity"
  /\ date = feasts.trinitySunday + 35
  /\ litDay.weekOfSeason = 5

\* C23: in Easter season the Sunday 7k days after Easter Day (k = 1..5) is
\* the k-th Sunday after Easter: its week is k and, unless a holy day takes
\* the day, its name is 'The <k-th> Sunday after Easter' and its collect key
\* 'easter-k'.
C23_SundaysAfterEaster ==
  calpc = "resolved" =>
    \A k \in 1..5 :
      date = feasts.easterDay + 7 * k /\ litDay.season = "easter" =>
        /\ litDay.weekOfSeason = k
        /\ ~litDay.isHolyDay =>
             /\ litDay.name =
                  "The " \o <<"First", "Second", "Third", "Fourth", "Fifth">>[k]
                         \o " Sunday after Easter"
             /\ litDay.collectId = "easter-" \o ToString(k)

\* The pre-Lent week of a date: 1 from Septuagesima, 2 from Sexagesima, 3
\* from Quinquagesima.
PreLentWeek(d, f) ==
  IF d >= f.quinquagesima THEN 3 ELSE IF d >= f.sexagesima THEN 2 ELSE 1

\* C24: in pre-lent season the key of the liturgical plan and the collect
\* key follow the three pre-Lent Sundays: 'septuagesima' and 'pre-lent-1'
\* from Septuagesima to the Saturday after it, 'sexagesima' and 'pre-lent-2'
\* from Sexagesima, 'quinquagesima' and 'pre-lent-3' from Quinquagesima to
\* Shrove Tuesday (the collect key unless a holy day takes the day).
C24_PreLentKeys ==
  calpc = "resolved" /\ litDay.season = "pre-lent" =>
    LET w == PreLentWeek(date, feasts)
        prefix == <<"septuagesima", "sexagesima", "quinquagesima">>[w]
    IN  /\ date >= feasts.septuagesima
        /\ date < feasts.ashWednesday
        /\ computeRevisedKey(litDay) =
             IF getDay(date) = 0 THEN prefix
             ELSE prefix \o "-" \o DAY_NAMES[getDay(date) + 1]
        /\ ~litDay.isHolyDay => litDay.collectId = "pre-lent-" \o ToString(w)

\* The Sunday before a date that is not a Sunday.
PrecedingSunday(d) == d - getDay(d)

\* C25: a date that is not a Sunday and whose preceding Sunday lies in the
\* same season of the same year has the week of that Sunday.
C25_WeekdayInWeekOfSunday ==
  /\ calpc = "resolved"
  /\ getDay(date) # 0
  /\ getFullYear(PrecedingSunday(date)) = getFullYear(date)
  /\ resolveLiturgicalDay(PrecedingSunday(date)).season = litDay.season
  => litDay.weekOfSeason = resolveLiturgicalDay(PrecedingSunday(date)).weekOfSeason

\* ------------------------------------------------------------------------
\* Properties of the psalter
\* ------------------------------------------------------------------------

\* C12: the psalter day is in 1..30 and is the day of the month, except that
\* day 31 and the last day of February (28 February of a common year, 29
\* February of a leap year) give 30; 28 February of a leap year gives 28.
C12_PsalterDay ==
  psalms # NoPsalms =>
    LET dayOfMonth == getDate(date)
        lastOfFebruary == getMonth(date) = 1 /\ getMonth(date + 1) = 2
        leapYear == getMonth(NewDate(getFullYear(date), 1, 29)) = 1
    IN  /\ psalms.psalterDay \in 1..30
        /\ psalms.psalterDay =
             IF lastOfFebruary \/ dayOfMonth = 31 THEN 30 ELSE dayOfMonth
        /\ leapYear /\ getMonth(date) = 1 /\ dayOfMonth = 28 => psalms.psalterDay = 28

\* The psalms of 28 February of a leap year were built.
C12_Witness ==
  /\ psalms # NoPsalms
  /\ getMonth(date) = 1
  /\ getDate(date) = 28
  /\ getMonth(date + 1) = 1
  /\ psalms.psalterDay = 28

\* The key of PSALM_119_DIVISIONS for the session before and the session
\* after a session of the 30-day cycle.
PreviousSessionKey(psalterDay, session) ==
  IF session = "evening" THEN ToString(psalterDay) \o "-morning"
  ELSE ToString(psalterDay - 1) \o "-evening"
NextSessionKey(psalterDay, session) ==
  IF session = "morning" THEN ToString(psalterDay) \o "-evening"
  ELSE ToString(psalterDay + 1) \o "-morning"

VersesOf(division) == division.startVerse..division.endVerse

\* C13: the five portions of Psalm 119 partition verses 1..176 in cycle
\* order: the portion read at a session starts at verse 1 if the session
\* before it has no portion and one verse after that session's portion
\* otherwise, and the last portion ends at verse 176.
C13_Psalm119Partition ==
  /\ Cardinality(DOMAIN PSALM_119_DIVISIONS) = 5
  /\ UNION {VersesOf(PSALM_119_DIVISIONS[k]) : k \in DOMAIN PSALM_119_DIVISIONS} = 1..176
  /\ \A j, k \in DOMAIN PSALM_119_DIVISIONS :
       j # k => VersesOf(PSALM_119_DIVISIONS[j]) \cap VersesOf(PSALM_119_DIVISIONS[k]) = {}
  /\ psalms # NoPsalms =>
       \A i \in DOMAIN psalms.refs :
         "startVerse" \in DOMAIN psalms.refs[i] =>
           LET ref == psalms.refs[i]
               prev == PreviousSessionKey(litDay.psalmsDay, psalms.session)
               next == NextSessionKey(litDay.psalmsDay, psalms.session)
           IN  /\ ref.startChapter = 119
               /\ ref.startVerse <= ref.endVerse
               /\ ref.startVerse =
                    IF prev \in DOMAIN PSALM_119_DIVISIONS
                      THEN PSALM_119_DIVISIONS[prev].endVerse + 1
                      ELSE 1
               /\ (next \notin DOMAIN PSALM_119_DIVISIONS) <=> ref.endVerse = 176

\* The morning of psalter day 25 read the second portion, verses 33 to 72.
C13_Witness ==
  /\ psalms # NoPsalms
  /\ psalms.session = "morning"
  /\ litDay.psalmsDay = 25
  /\ \E i \in DOMAIN psalms.refs :
       psalms.refs[i] = [book |-> "Psalms", startChapter |-> 119, startVerse |-> 33,
                         endChapter |-> 119, endVerse |-> 72]

\* The psalms of the 30-day cycle in reading order, day 1 to day 30, morning
\* before evening.
RECURSIVE CycleFrom(_)
CycleFrom(i) ==
  IF i > Len(PSALTER_30_DAY) THEN <<>>
  ELSE PSALTER_30_DAY[i].morning \o PSALTER_30_DAY[i].evening \o CycleFrom(i + 1)

PsalterCycle == CycleFrom(1)

Occurrences(cycle, n) == {k \in DOMAIN cycle : cycle[k] = n}

\* The slots (day, session) whose list holds psalm n.
SlotsOf(n) ==
  {<<i, s>> \in (1..Len(PSALTER_30_DAY)) \X Sessions :
     \E k \in DOMAIN PSALTER_30_DAY[i][s] : PSALTER_30_DAY[i][s][k] = n}

\* The table has 30 entries and covers the psalms 1..150; in reading order
\* the psalm numbers never decrease, every psalm other than 119 appears
\* exactly once, and Psalm 119 appears only on the evening of day 24 and on
\* days 25 and 26.
PsalterTableCovers ==
  /\ Len(PSALTER_30_DAY) = 30
  /\ \A i \in DOMAIN PSALTER_30_DAY : PSALTER_30_DAY[i].day = i
  /\ {PsalterCycle[k] : k \in DOMAIN PsalterCycle} = 1..150
  /\ \A k \in 1..(Len(PsalterCycle) - 1) : PsalterCycle[k] <= PsalterCycle[k + 1]
  /\ \A n \in (1..150) \ {119} : Cardinality(Occurrences(PsalterCycle, n)) = 1
  /\ SlotsOf(119) \subseteq
       {<<24, "evening">>, <<25, "morning">>, <<25, "evening">>,
        <<26, "morning">>, <<26, "evening">>}

\* C22: PSALTER_30_DAY covers all psalms 1..150 once each in non-decreasing
\* reading order, Psalm 119 apart, which appears only on the evening of day
\* 24 and on days 25 and 26; the psalms appointed for a date and session
\* are those of its slot of the table.
C22_PsalterCoverage ==
  /\ PsalterTableCovers
  /\ psalms # NoPsalms =>
       psalms.psalmNumbers = PSALTER_30_DAY[psalms.psalterDay][psalms.session]

\* The evening of psalter day 13 was built with Psalms 69 and 70.
C22_Witness ==
  /\ psalms # NoPsalms
  /\ psalms.psalterDay = 13
  /\ psalms.session = "evening"
  /\ psalms.psalmNumbers = <<69, 70>>

\* C26: the psalter day calendar.ts puts in LiturgicalDay.psalmsDay is the
\* psalter day psalter.ts uses for getPsalmsForDay, so the key
\* '<psalmsDay>-<session>' has a Psalm 119 division exactly when the psalms
\* appointed for the date and session contain Psalm 119.
C26_PsalterDaysAgree ==
  psalms # NoPsalms =>
    /\ litDay.psalmsDay = psalms.psalterDay
    /\ getPsalterDayNumber(date) = psalter_getPsalterDayNumber(date)
    /\ (ToString(litDay.psalmsDay) \o "-" \o psalms.session \in DOMAIN PSALM_119_DIVISIONS)
         <=> (\E i \in DOMAIN psalms.psalmNumbers : psalms.psalmNumbers[i] = 119)

\* On the evening of psalter day 24 Psalm 119 was appointed and read in the
\* portion the key '24-evening' gives.
C26_Witness ==
  /\ psalms # NoPsalms
  /\ litDay.psalmsDay = 24
  /\ psalms.session = "evening"
  /\ psalms.psalmNumbers = <<119>>
  /\ "startVerse" \in DOMAIN psalms.refs[1]

\* ------------------------------------------------------------------------
\* Properties of the table cache
\* ------------------------------------------------------------------------

Waiting(c) == calls[c].pc \in {"fetch", "json"}

\* C3: resolveReadings calls that wait for the table of the same plan all
\* wait for one and the same load.
C3_SingleLoadInFlight ==
  \A c1, c2 \in CallIds :
    Waiting(c1) /\ Waiting(c2) /\ calls[c1].plan = calls[c2].plan =>
      calls[c1].fetchId = calls[c2].fetchId

\* C4: once a plan's table is loaded no further load of it is issued, the
\* table is never cleared or replaced, and a step that loads or resolves one
\* plan leaves the tables of the other plans alone.
C4_CacheAppendOnly ==
  [][ /\ \A p \in Plans :
           cache[p] # Null => cache'[p] = cache[p] /\ fetched'[p] = fetched[p]
      /\ \A c \in CallIds, p \in Plans :
           calls'[c] # calls[c] /\ calls'[c].plan # p => cache'[p] = cache[p]
    ]_vars

C15_UnknownPlanFails ==
  \A c \in CallIds :
    calls[c].pc = "done" /\ calls[c].plan \notin Plans =>
      calls[c].result = "error"

Resolved == readings # NoReadings

TableOf(planId) == tables[planId].data

\* C14: on a sequential plan with its table loaded, an explicit plan day
\* outside 1..(table length) gives empty first and second lists.
C14_OutOfRangePlanDayEmpty ==
  /\ Resolved
  /\ request.planId \in {"mcheyne", "bibleproject"}
  /\ "planDay" \in DOMAIN request
  /\ request.planDay \notin 1..Len(TableOf(request.planId))
  => readings = EmptyReadings

\* The zero-padded 'MM-DD' key of a date.
MonthDayKey(d) ==
  (IF getMonth(d) + 1 < 10 THEN "0" ELSE "") \o ToString(getMonth(d) + 1) \o "-" \o
  (IF getDate(d) < 10 THEN "0" ELSE "") \o ToString(getDate(d))

\* C17: with the plan's table loaded resolveReadings returns a pair of
\* lists for every known plan, date and session; on the civil-calendar plan
\* they are the session's first and second lists of the entry under the
\* zero-padded 'MM-DD' key of the date, and two empty lists when the table
\* has no such entry.
C17_MissingEntryEmpty ==
  Resolved =>
    /\ DOMAIN readings = {"first", "second"}
    /\ readings.first \in Seq(STRING)
    /\ readings.second \in Seq(STRING)
    /\ request.planId = "1662-original" =>
         IF MonthDayKey(request.date) \in DOMAIN TableOf("1662-original")
           THEN LET entry == TableOf("1662-original")[MonthDayKey(request.date)]
                IN  /\ readings.first = entry[request.session].first
                    /\ readings.second = entry[request.session].second
           ELSE readings = EmptyReadings

\* 29 February was resolved on a table that has no entry for it.
C17_Witness ==
  /\ Resolved
  /\ request.planId = "1662-original"
  /\ MonthDayKey(request.date) = "02-29"
  /\ "02-28" \in DOMAIN TableOf("1662-original")
  /\ "02-29" \notin DOMAIN TableOf("1662-original")
  /\ readings = EmptyReadings

\* The day of the year that month m0 (0-indexed) and day d have in a common
\* year, 29 February counted as 28 February.
CommonYearDay(m0, d) ==
  IF m0 = 1 /\ d = 29 THEN 59
  ELSE <<0, 31, 59, 90, 120, 151, 181, 212, 243, 273, 304, 334>>[m0 + 1] + d

\* C18: on the M'Cheyne plan called without a plan day the index derived
\* from the date lies in 1..365 and, in a leap year, is the day of the year
\* of the same month and day in a common year: 59 for 29 February and one
\* less than the leap year's day of the year after it.  The readings are
\* those of that day of the table.
C18_McheyneLeapYearIndex ==
  /\ Resolved
  /\ request.planId = "mcheyne"
  /\ "planDay" \notin DOMAIN request
  => LET d == request.date
         index == mcheyneDoy(tz, request)
         expected == CommonYearDay(getMonth(d), getDate(d))
     IN  /\ index \in 1..365
         /\ getMonth(NewDate(getFullYear(d), 1, 29)) = 1 =>
              /\ index = expected
              /\ Len(TableOf("mcheyne")) = 365 =>
                   readings.first = <<mcheyneReadings(expected, request.session)[1]>>

\* The primary readings of the sub-entry of an entry, two empty lists if the
\* entry has no such sub-entry; a lesson without primary readings gives an
\* empty list.
PrimaryOfLesson(sub, l) ==
  IF l \in DOMAIN sub /\ "primary" \in DOMAIN sub[l] THEN sub[l].primary ELSE <<>>
PrimariesOf(entry, field) ==
  IF field \in DOMAIN entry
    THEN [first |-> PrimaryOfLesson(entry[field], "first"),
          second |-> PrimaryOfLesson(entry[field], "second")]
    ELSE EmptyReadings

RevisedResolved ==
  Resolved /\ request.planId = "1662-revised" /\ "litDay" \in DOMAIN request

FixedField == IF request.session = "morning" THEN "morning" ELSE "secondEvensong"

\* C16 as stated: whenever the regular table has an entry under the
\* computed key the readings are the primary readings of that entry; the
\* fixed table is consulted only when the regular table has no entry under
\* the key and the day is a holy day; in every other case both lists are
\* empty.
C16_RegularEntryBeforeFixed ==
  /\ RevisedResolved =>
       LET day == request.litDay
           key == computeRevisedKey(day)
           data == TableOf("1662-revised")
       IN  IF key \in DOMAIN data.regular
             THEN readings = PrimariesOf(data.regular[key], request.session)
           ELSE IF day.isHolyDay /\ day.collectId \in DOMAIN data.fixed
             THEN readings = PrimariesOf(data.fixed[day.collectId], FixedField)
           ELSE readings = EmptyReadings
  /\ Resolved /\ request.planId = "1662-revised" /\ "litDay" \notin DOMAIN request
       => readings = EmptyReadings

\* C16, amended: whenever the regular table has an entry under the computed
\* key and that entry has a sub-entry for the session, the readings are the
\* primary readings of that sub-entry; otherwise, when the day is a holy
\* day, they are the primary readings of 'morning' (morning session) or
\* 'secondEvensong' (evening session) of the fixed entry under the collect
\* key; in every other case both lists are empty.
C16_RegularSessionBeforeFixed ==
  /\ RevisedResolved =>
       LET day == request.litDay
           key == computeRevisedKey(day)
           data == TableOf("1662-revised")
       IN  IF key \in DOMAIN data.regular /\ request.session \in DOMAIN data.regular[key]
             THEN readings = PrimariesOf(data.regular[key], request.session)
           ELSE IF day.isHolyDay /\ day.collectId \in DOMAIN data.fixed
             THEN readings = PrimariesOf(data.fixed[day.collectId], FixedField)
           ELSE readings = EmptyReadings
  /\ Resolved /\ request.planId = "1662-revised" /\ "litDay" \notin DOMAIN request
       => readings = EmptyReadings

\* The evening of a holy day whose regular entry has no evening sub-entry
\* was resolved from the second evensong of its fixed entry.
C16_Witness ==
  /\ RevisedResolved
  /\ request.session = "evening"
  /\ request.litDay.isHolyDay
  /\ computeRevisedKey(request.litDay) \in DOMAIN TableOf("1662-revised").regular
  /\ "evening" \notin DOMAIN TableOf("1662-revised").regular[computeRevisedKey(request.litDay)]
  /\ request.litDay.collectId \in DOMAIN TableOf("1662-revised").fixed
  /\ readings.first = <<request.litDay.collectId \o " second evensong first">>

\* ------------------------------------------------------------------------
\* Properties of the plan day
\* ------------------------------------------------------------------------

\* C19: when computePlanDay(S, D, T) is a number n, addDays(S, n - 1) is D;
\* and for every n in 1..T, computePlanDay(S, addDays(S, n - 1), T) is n.
C19_PlanDayRoundTrip ==
  /\ anchor.pc = "rederived" => anchor.rederived = anchor.currentDate
  /\ anchor.pc \in {"computed", "rederived"} /\ anchor.day # Null =>
       anchor.planDay = anchor.day

\* A plan day was computed and the date derived again across the start of
\* daylight saving time (26 March 2000 in Europe/London).
C19_Witness ==
  /\ anchor.pc = "rederived"
  /\ tz = "Europe/London"
  /\ anchor.startDate = "2000-03-25"
  /\ anchor.currentDate = "2000-03-27"
  /\ anchor.rederived = "2000-03-27"
  /\ anchor.planDay = 3

\* ------------------------------------------------------------------------
\* Properties of useOffice
\* ------------------------------------------------------------------------

\* The assembleOffice call of an effect that is no longer the latest settles
\* in this step.
StaleOfficeCallSettles ==
  \E e \in EffectIds :
    /\ e # officeHook.effect
    /\ officeCalls[e].pc = "pending"
    /\ officeCalls'[e].pc = "settled"

\* The state the callbacks of the latest call leave once it has settled.
LatestOfficeCallShown ==
  \/ officeHook.effect = Null
  \/ officeCalls[officeHook.effect].pc # "settled"
  \/ /\ officeHook.loading = FALSE
     /\ officeCalls[officeHook.effect].outcome.kind = "resolved"
     /\ officeHook.plan = officeCalls[officeHook.effect].outcome.value
     /\ officeHook.plan = DailyPlan(officeHook.inputs)
     /\ officeHook.error = NoError
  \/ /\ officeHook.loading = FALSE
     /\ officeCalls[officeHook.effect].outcome.kind = "rejected"
     /\ officeHook.error.isNull = FALSE
     /\ officeHook.error.message =
          IF officeCalls[officeHook.effect].outcome.isError
          THEN officeCalls[officeHook.effect].outcome.message
          ELSE "Failed to load office"

\* C27: in useOffice, once the inputs have changed, the result or the error of
\* an assembleOffice call started for earlier inputs is never written to the
\* plan, error or loading state, in whatever order the calls settle; and once
\* the latest call has settled, loading is false and the plan (when it
\* resolved) or the error (when it rejected) is that of the latest call.
C27_StaleOfficeCallsIgnored ==
  /\ [][StaleOfficeCallSettles => officeHook' = officeHook]_vars
  /\ []LatestOfficeCallShown

\* Two calls started for earlier inputs resolved after the inputs had changed
\* and left no plan behind; the third call settled last, with an error.
C27_Witness ==
  /\ officeHook.effect = 3
  /\ officeCalls[1].pc = "settled" /\ officeCalls[1].outcome.kind = "resolved"
  /\ officeCalls[2].pc = "settled" /\ officeCalls[2].outcome.kind = "resolved"
  /\ officeCalls[3].pc = "settled" /\ officeCalls[3].outcome.kind = "rejected"
  /\ officeHook.plan = NoPlan
  /\ officeHook.loading = FALSE
  /\ officeHook.error.isNull = FALSE

\* ------------------------------------------------------------------------
\* Properties of useCompletion
\* ------------------------------------------------------------------------

\* A load started for a key that is no longer the key of the hook resumes in
\* this step.
StaleLoadResumes ==
  \E l \in LoadIds :
    /\ loads[l].pc = "queried"
    /\ loads'[l].pc = "done"
    /\ loads[l].key # completion.key

\* Every record holds, under its key, only sections that were stored under
\* that key at the start or toggled while it was the key of the hook.
PersistedUnderOwnKey ==
  \A i \in 1..Len(completions) :
    \A s \in completions[i].sectionsCompleted :
      <<completions[i].key, s>> \in completion.own

\* C28: in useCompletion, a load started for key K1 that finishes after the
\* key has changed to K2 never replaces the in-memory completed set, so the
\* sections persisted under K2 are sections loaded or toggled for K2, never
\* those stored for K1.
C28_StaleLoadNeverReplaces ==
  /\ [][StaleLoadResumes =>
          completion'.completedSections = completion.completedSections]_vars
  /\ []PersistedUnderOwnKey

\* The hook has been mounted and its key has never changed.
OneKeyViewed ==
  /\ loads[1].pc # "idle"
  /\ \A l \in LoadIds : l > 1 => loads[l].pc = "idle"

RecordsOf(key) == {i \in 1..Len(completions) : completions[i].key = key}

AtMostOneRecord == Cardinality(RecordsOf(completion.key)) <= 1

\* No load is under way, no timer is set and no persist callback is running.
NothingPending ==
  /\ loads[1].pc = "done"
  /\ completion.timer = NoTimer
  /\ \A p \in PersistIds : persists[p].pc \in {"idle", "done"}

RecordMatchesMemory ==
  NothingPending =>
    \A i \in RecordsOf(completion.key) :
      completions[i].sectionsCompleted = completion.completedSections

\* Nothing was stored under the key and no section was toggled under it.
OnlyViewed == \A s \in SectionIds : <<completion.key, s>> \notin completion.own

ViewedKeyHasNoRecord == OnlyViewed => RecordsOf(completion.key) = {}

\* C29: for one (date, session, planId), after any toggles and any
\* interleaving of the persist callbacks, the completions table holds at most
\* one record for the key; once no callback is pending that record's
\* sectionsCompleted equals the in-memory completed set; and a key that was
\* only viewed gets no record.
C29_OneRecordMatchingMemory ==
  OneKeyViewed =>
    /\ AtMostOneRecord
    /\ RecordMatchesMemory
    /\ ViewedKeyHasNoRecord

\* ------------------------------------------------------------------------
\* Properties of the plan states
\* ------------------------------------------------------------------------

\* planNotStarted of OfficeTab: daysBetween(planStartDate, currentDateStr) < 0
PlanNotStarted(zone, startDate, currentDate) ==
  date_daysBetween(zone, startDate, currentDate) < 0

\* planDay, as computePlanDay returned it, is a number in 1..totalDays.
PlanActive(planDay, totalDays) == planDay # Null /\ planDay \in 1..totalDays

BoolCount(b) == IF b THEN 1 ELSE 0

PlanStates(zone, startDate, currentDate, totalDays, planDay) ==
  /\ BoolCount(PlanNotStarted(zone, startDate, currentDate))
       + BoolCount(PlanActive(planDay, totalDays))
       + BoolCount(isPlanComplete(zone, startDate, currentDate, totalDays)) = 1
  /\ isDateInPlanRange(zone, startDate, currentDate, totalDays)
       <=> PlanActive(planDay, totalDays)
  /\ planDay = Null
       <=> \/ PlanNotStarted(zone, startDate, currentDate)
           \/ isPlanComplete(zone, startDate, currentDate, totalDays)

\* C30: for every start date, date and plan length >= 1, exactly one of not
\* started (daysBetween < 0), active (computePlanDay is a number in
\* 1..totalDays) and complete (isPlanComplete) holds; isDateInPlanRange is
\* true exactly when the plan is active, and computePlanDay returns null
\* exactly when it is not started or complete.
C30_PlanStatesExclusive ==
  anchor.pc \in {"computed", "rederived"} =>
    PlanStates(tz, anchor.startDate, anchor.currentDate, anchor.totalDays,
               anchor.planDay)

\* The day after the last plan day: computePlanDay returned null, the plan is
\* complete and the date is out of the plan's range.
C30_Witness ==
  /\ anchor.pc = "computed"
  /\ anchor.totalDays > 1
  /\ anchor.planDay = Null
  /\ date_daysBetween(tz, anchor.startDate, anchor.currentDate) = anchor.totalDays
  /\ isPlanComplete(tz, anchor.startDate, anchor.currentDate, anchor.totalDays)
  /\ ~isDateInPlanRange(tz, anchor.startDate, anchor.currentDate, anchor.totalDays)

====
